---- MODULE Spec2Model ----
(***************************************************************************)
(* Main-process state of the Art Analyst desktop client:                   *)
(*   - the electron-store document with its three keys (chatHistory,       *)
(*     windowState, settings) and the chat-history IPC handlers of         *)
(*     src/main/main.ts, wrapped by wrapIpcHandler / wrapIpcBooleanHandler; *)
(*   - the debounced window-state writer (saveWindowState), the window     *)
(*     listeners registered by createWindow and the before-quit handler.   *)
(* Each IPC handler and each event listener is one action: the main        *)
(* process runs them to completion on one thread.                          *)
(***************************************************************************)
EXTENDS Integers, Sequences, FiniteSets, TLC

VARIABLES
    store,                  \* the electron-store document: key -> stored value
    mainWindow,             \* "null" | "alive" | "destroyed" (reference kept, isDestroyed())
    win,                    \* getBounds() and isMaximized() of the window
    saveWindowStateTimeout, \* 0 for null, else the Timeout handle last returned by setTimeout
    timers,                 \* handles of the timeouts that are scheduled and not yet fired
    quitting,               \* before-quit has been emitted
    lastCall,               \* the handler that ran last, its arguments and what it returned
    saved,                  \* observer: the messages saved with result true since the history was empty
    e2e,                    \* observer: how far the last calls have followed the end-to-end scenario
    burst,                  \* observer: the notifications and writes of the current debounce burst
    model,                  \* "null" | "ready": the generative model of main.ts line 36
    pending,                \* the calls whose handler has run and whose reply is on its way
    app,                    \* the React state of App.tsx: chatHistory, currentMessages, saveError
    acked                   \* observer: the messages the renderer loaded or saw saved with result true

vars == <<store, mainWindow, win, saveWindowStateTimeout, timers, quitting,
          lastCall, saved, e2e, burst, model, pending, app, acked>>

rendererVars == <<app, acked>>
chatVars == <<saved, e2e, pending, rendererVars>>
windowVars == <<mainWindow, win, saveWindowStateTimeout, timers, quitting, burst>>

(***************************************************************************)
(* Bounds of the model.                                                    *)
(***************************************************************************)
\* The history capacity the model runs with. The source's value is 1000
\* (MAX_CHAT_HISTORY_SIZE, and the .max(1000) of ChatHistorySchema); the
\* handlers are parametric in it, and TLC explores it scaled down.
Cap == 3

\* How many successful saves the observer `saved` follows before it stops
\* following: more than the capacity, so that evictions are observed.
MaxSaved == 5

\* The Timeout handles the model tells apart. saveWindowState keeps at most
\* one scheduled, so a second handle is all the code needs.
MaxTimers == 3

\* The observer `burst` counts the notifications of a burst up to this.
MaxBurst == 3

\* How many calls are in flight at once: handled, the reply not yet received.
MaxInFlight == 2

\* How many messages the renderer creates (generateMessageId is called).
MaxMessages == 4

(***************************************************************************)
(* JavaScript values, as far as the schemas tell them apart.               *)
(***************************************************************************)
Undefined == [t |-> "undefined", s |-> "", n |-> 0]
NaN == [t |-> "nan", s |-> "", n |-> 0]
Str(s) == [t |-> "string", s |-> s, n |-> 0]
Num(n) == [t |-> "number", s |-> "", n |-> n]

\* An object sent as a chat message: the four schema keys and the two
\* optional keys of the ChatMessage interface. Undefined is a missing key.
Msg(id, role, content, timestamp, imageData, imageMimeType) ==
    [id |-> id, role |-> role, content |-> content, timestamp |-> timestamp,
     imageData |-> imageData, imageMimeType |-> imageMimeType]

MsgA == Msg(Str("a"), Str("user"), Str("hi"), Num(1000), Undefined, Undefined)
MsgB == Msg(Str("b"), Str("assistant"), Str("hello"), Num(1001), Undefined, Undefined)
MsgImg == Msg(Str("c"), Str("user"), Str("pic"), Num(1003), Str("AAAA"), Str("image/png"))

\* Messages that pass ChatMessageSchema.
AcceptedMessages == {MsgA, MsgB, MsgImg}

\* Messages that do not.
RejectedMessages ==
    { [MsgA EXCEPT !.content = Undefined],
      [MsgA EXCEPT !.content = Num(5)],
      [MsgA EXCEPT !.id = Undefined],
      [MsgA EXCEPT !.id = Num(7)],
      [MsgA EXCEPT !.role = Str("system")],
      [MsgA EXCEPT !.timestamp = Str("1000")],
      [MsgA EXCEPT !.timestamp = NaN] }

Messages == AcceptedMessages \cup RejectedMessages

\* Arguments of deleteMessage.
MessageIds == {Str("a"), Str("b"), Str("c"), Str("zz")}

(***************************************************************************)
(* Schemas (src/types/schemas.ts).                                         *)
(***************************************************************************)
\* z.string(), z.number() (which refuses NaN) and z.enum(['user','assistant']).
IsString(v) == v.t = "string"
IsNumber(v) == v.t = "number"
IsRole(v) == v.t = "string" /\ v.s \in {"user", "assistant"}

ChatMessageSchemaOkNoContent(m) ==
    IsString(m.id) /\ IsRole(m.role) /\ IsNumber(m.timestamp)

\* ChatMessageSchema.safeParse(m).success
ChatMessageSchemaOk(m) ==
    IsString(m.id) /\ IsRole(m.role) /\ IsString(m.content) /\ IsNumber(m.timestamp)

\* ChatMessageSchema.safeParse(m).data: z.object keeps the keys of the
\* schema and drops every other key of the input.
ChatMessageSchemaData(m) ==
    Msg(m.id, m.role, m.content, m.timestamp, Undefined, Undefined)

MAX_CHAT_HISTORY_SIZE == Cap
\* The .max(1000) of ChatHistorySchema: the same number as MAX_CHAT_HISTORY_SIZE.
ChatHistorySchemaMax == Cap

(***************************************************************************)
(* Stored values and the store.                                            *)
(***************************************************************************)
NoWindowState == [x |-> 0, y |-> 0, width |-> 0, height |-> 0, isMaximized |-> FALSE]

Absent == [kind |-> "undefined", items |-> <<>>, obj |-> NoWindowState]
Array(items) == [kind |-> "array", items |-> items, obj |-> NoWindowState]
Object(o) == [kind |-> "object", items |-> <<>>, obj |-> o]
\* A stored value of another JSON type: "string", "number" or "null".
Primitive(kind) == [kind |-> kind, items |-> <<>>, obj |-> NoWindowState]

\* The object {}: a record without keys.
EmptyObject == <<>>

ALLOWED_STORE_KEYS == {"chatHistory", "windowState", "settings"}

\* store.get(key, defaultValue)
StoreGet(st, key, defaultValue) ==
    IF st[key].kind = "undefined" THEN defaultValue ELSE st[key]

StoreSetAlone(st, key, value) ==
    [k \in DOMAIN st |-> IF k = key THEN value ELSE Absent]

\* store.set(key, value)
StoreSet(st, key, value) == [st EXCEPT ![key] = value]

\* ChatHistorySchema.safeParse(data).success
ChatHistorySchemaOk(data) ==
    /\ data.kind = "array"
    /\ Len(data.items) <= ChatHistorySchemaMax
    /\ \A i \in 1..Len(data.items) : ChatMessageSchemaOk(data.items[i])

validateChatHistoryKeepingValid(data) ==
    IF data.kind = "array"
    THEN LET valid == SelectSeq(data.items, ChatMessageSchemaOk)
         IN  [i \in 1..Len(valid) |-> ChatMessageSchemaData(valid[i])]
    ELSE <<>>

\* validateChatHistory(data): the parsed entries, or [] when the value as a
\* whole fails the schema.
validateChatHistory(data) ==
    IF ChatHistorySchemaOk(data)
    THEN [i \in 1..Len(data.items) |-> ChatMessageSchemaData(data.items[i])]
    ELSE <<>>

\* What getChatHistory reads from a store.
ListHistory(st) == validateChatHistory(StoreGet(st, "chatHistory", Array(<<>>)))

(***************************************************************************)
(* Handler outcomes and the two wrappers (src/main/utils/ipc-wrapper.ts).  *)
(***************************************************************************)
\* A handler body either returns or throws; `st` is the store it leaves.
Return(ok, list, st) == [threw |-> FALSE, ok |-> ok, list |-> list, st |-> st]
Throw(st) == [threw |-> TRUE, ok |-> FALSE, list |-> <<>>, st |-> st]

\* The store access that threw in a call, "none" when the call reached none.
Hit(outcome, fault) == IF outcome.threw THEN fault ELSE "none"

\* A store access of the call throws: none, the read, or the write.
Faults == {"none", "get", "set"}

\* What a handler body throws: an Error with its message, or (kind "other")
\* a value that is no Error. Nothing: it did not throw.
ErrorOf(message) == [kind |-> "Error", message |-> message]
NonError == [kind |-> "other", message |-> ""]
Nothing == [kind |-> "none", message |-> ""]

\* The Error electron-store throws when the access `fault` fails.
StoreFailure(fault) ==
    IF fault = "get" THEN ErrorOf("EACCES: permission denied")
    ELSE IF fault = "set" THEN ErrorOf("ENOSPC: no space left on device")
    ELSE Nothing

\* What model.generateContent(...) followed by result.response.text() does:
\* it yields a text or throws. mimeType is the type it was called with.
Generates(text) == [kind |-> "text", text |-> text, thrown |-> Nothing, mimeType |-> <<>>]
Fails(thrown) == [kind |-> "throws", text |-> "", thrown |-> thrown, mimeType |-> <<>>]
NotInvoked == [kind |-> "none", text |-> "", thrown |-> Nothing, mimeType |-> <<>>]

\* What reaches the caller as a rejection: an error of class `name`.
Raised(name, message) == [name |-> name, message |-> message]
NotRaised == [name |-> "none", message |-> ""]

\* error instanceof Error ? error.message : 'Unknown error occurred'
errorMessage(thrown) ==
    IF thrown.kind = "Error" THEN thrown.message ELSE "Unknown error occurred"

wrapIpcHandlerErrorDefaultMessage(thrown, errorType) ==
    IF thrown.kind = "none" THEN NotRaised ELSE Raised(errorType, "")

\* wrapIpcHandler, catch branch: throw new errorType(errorMessage)
wrapIpcHandlerError(thrown, errorType) ==
    IF thrown.kind = "none" THEN NotRaised ELSE Raised(errorType, errorMessage(thrown))

\* wrapIpcBooleanHandler, catch branch: return false, nothing is thrown.
wrapIpcBooleanHandlerError(thrown) == NotRaised

wrapIpcBooleanHandlerTrueOnError(outcome) ==
    IF outcome.threw THEN "true" ELSE IF outcome.ok THEN "true" ELSE "false"

\* wrapIpcBooleanHandler: the handler's boolean, or false when it threw.
wrapIpcBooleanHandler(outcome) ==
    IF outcome.threw THEN "false" ELSE IF outcome.ok THEN "true" ELSE "false"

\* wrapIpcHandler: the handler's value, or an error of the given type.
wrapIpcHandler(outcome, errorType) ==
    IF outcome.threw THEN errorType ELSE "value"

(***************************************************************************)
(* Chat history handlers (src/main/main.ts).                               *)
(***************************************************************************)
TrimHistoryNoEviction(history) == history

TrimHistoryFromBack(history) ==
    IF Len(history) > MAX_CHAT_HISTORY_SIZE
    THEN SubSeq(history, 1, MAX_CHAT_HISTORY_SIZE)
    ELSE history

\* if (history.length > MAX) history.splice(0, history.length - MAX)
TrimHistory(history) ==
    IF Len(history) > MAX_CHAT_HISTORY_SIZE
    THEN SubSeq(history, Len(history) - MAX_CHAT_HISTORY_SIZE + 1, Len(history))
    ELSE history

PushMessageFront(history, data) == <<data>> \o history

\* history.push(messageValidation.data)
PushMessage(history, data) == Append(history, data)

\* GET_CHAT_HISTORY
GetChatHistoryHandler(st, fault) ==
    IF fault = "get" THEN Throw(st)
    ELSE Return(TRUE, validateChatHistory(StoreGet(st, "chatHistory", Array(<<>>))), st)

SaveMessageHandlerStaleRead(st, message, fault) ==
    IF ~ChatMessageSchemaOk(message) THEN Return(FALSE, <<>>, st)
    ELSE IF fault # "none" THEN Throw(st)
    ELSE Return(TRUE, <<>>, StoreSet(st, "chatHistory",
                                     Array(<<ChatMessageSchemaData(message)>>)))

\* SAVE_MESSAGE
SaveMessageHandler(st, message, fault) ==
    IF ~ChatMessageSchemaOk(message) THEN Return(FALSE, <<>>, st)
    ELSE IF fault = "get" THEN Throw(st)
    ELSE LET rawHistory == StoreGet(st, "chatHistory", Array(<<>>))
             history == validateChatHistory(rawHistory)
             pushed == PushMessage(history, ChatMessageSchemaData(message))
         IN  IF fault = "set" THEN Throw(st)
             ELSE Return(TRUE, <<>>, StoreSet(st, "chatHistory", Array(TrimHistory(pushed))))

ClearHistoryHandlerNoWrite(st, fault) ==
    IF fault = "set" THEN Throw(st) ELSE Return(TRUE, <<>>, st)

\* CLEAR_HISTORY
ClearHistoryHandler(st, fault) ==
    IF fault = "set" THEN Throw(st)
    ELSE Return(TRUE, <<>>, StoreSet(st, "chatHistory", Array(<<>>)))

RECURSIVE FilterFirstNotId(_, _)
FilterFirstNotId(history, messageId) ==
    IF history = <<>> THEN <<>>
    ELSE IF Head(history).id = messageId THEN Tail(history)
    ELSE <<Head(history)>> \o FilterFirstNotId(Tail(history), messageId)

FilterOnlyId(history, messageId) ==
    SelectSeq(history, LAMBDA msg : msg.id = messageId)

\* history.filter(msg => msg.id !== messageId)
FilterNotId(history, messageId) ==
    SelectSeq(history, LAMBDA msg : msg.id # messageId)

\* DELETE_MESSAGE
DeleteMessageHandler(st, messageId, fault) ==
    IF fault = "get" THEN Throw(st)
    ELSE LET history == validateChatHistory(StoreGet(st, "chatHistory", Array(<<>>)))
             filteredHistory == FilterNotId(history, messageId)
         IN  IF fault = "set" THEN Throw(st)
             ELSE Return(TRUE, <<>>, StoreSet(st, "chatHistory", Array(filteredHistory)))

(***************************************************************************)
(* The record of the last call.                                            *)
(***************************************************************************)
NoMessage == Msg(Undefined, Undefined, Undefined, Undefined, Undefined, Undefined)

\* op: the handler; msg, id: its arguments; fault: the store access that
\* threw in it; result: what the caller got; value: the history returned;
\* found: how many entries the history had when the call came in; thrown:
\* what the handler body threw; error: what was raised to the caller;
\* args, reply: the arguments and the value returned of the handlers that
\* are not chat-history handlers; service: the call of the generative
\* model made in it.
Call(op, msg, id, fault, result, value, found) ==
    [op |-> op, msg |-> msg, id |-> id, fault |-> fault, result |-> result,
     value |-> value, found |-> found, thrown |-> Nothing, error |-> NotRaised,
     args |-> <<>>, reply |-> Undefined, service |-> NotInvoked]

\* The record of a call whose body threw `thrown` and whose wrapper raised `error`.
Failing(call, thrown, error) == [call EXCEPT !.thrown = thrown, !.error = error]

NoCall == Call("none", NoMessage, Undefined, "none", "void", <<>>, 0)
Event(op) == Call(op, NoMessage, Undefined, "none", "void", <<>>, 0)

(***************************************************************************)
(* Observers of the chat-history calls. They record what was called and    *)
(* what came back; no handler reads them.                                  *)
(***************************************************************************)
\* `saved` follows the messages whose saveMessage returned true, from a
\* moment the history read back empty, for as long as only saveMessage,
\* getChatHistory and failed calls happen.
NotFollowing == [following |-> FALSE, msgs |-> <<>>]
Following(msgs) == [following |-> TRUE, msgs |-> msgs]

SavedAfter(call, st) ==
    IF call.op = "getChatHistory" \/ call.result = "false" THEN saved
    ELSE IF call.op = "saveMessage"
    THEN IF saved.following /\ Len(saved.msgs) < MaxSaved
         THEN Following(Append(saved.msgs, call.msg))
         ELSE NotFollowing
    ELSE IF call.op = "clearHistory" /\ ListHistory(st) = <<>>
    THEN Following(<<>>)
    ELSE NotFollowing

\* The calls of the end-to-end scenario, in order.
E2ESteps ==
    << [op |-> "saveMessage", msg |-> MsgA, id |-> Undefined],
       [op |-> "saveMessage", msg |-> MsgB, id |-> Undefined],
       [op |-> "deleteMessage", msg |-> NoMessage, id |-> Str("a")],
       [op |-> "clearHistory", msg |-> NoMessage, id |-> Undefined] >>
E2EOff == Len(E2ESteps) + 1

\* `e2e` = k: the history read back empty, and since then exactly the first
\* k calls of the scenario were made (with reads of the history in between),
\* none of them with a failing store access.
E2EAfter(call, st) ==
    IF call.op = "getChatHistory" THEN e2e
    ELSE IF /\ e2e < Len(E2ESteps)
            /\ call.fault = "none"
            /\ [op |-> call.op, msg |-> call.msg, id |-> call.id] = E2ESteps[e2e + 1]
    THEN e2e + 1
    ELSE IF ListHistory(st) = <<>> THEN 0 ELSE E2EOff

(***************************************************************************)
(* The state of the renderer's App component (src/renderer/App.tsx lines   *)
(* 11-17): the useState values, `made` the number of messages created so   *)
(* far, `mounted` whether the effect of lines 20-23 has run.               *)
(***************************************************************************)
Unmounted ==
    [mounted |-> FALSE, chatHistory |-> <<>>, currentMessages |-> <<>>,
     saveError |-> "", error |-> "", made |-> 0]

(***************************************************************************)
(* Initial states: the module has been loaded (main.ts lines 32-58), the   *)
(* window is not yet created. The store file holds no chat history or a    *)
(* valid one, and GEMINI_API_KEY is set (lines 38-41); the chat-history    *)
(* and window handlers never read `model`.                                 *)
(***************************************************************************)
InitialHistories ==
    { Absent, Array(<<>>), Array(<<MsgA, MsgB>>),
      Array([i \in 1..MAX_CHAT_HISTORY_SIZE |-> MsgB]) }

NoBurst == [phase |-> "none", n |-> 0, writes |-> 0, geom |-> NoWindowState, gone |-> FALSE]

Init ==
    /\ \E h \in InitialHistories :
          /\ store = [chatHistory |-> h, windowState |-> Absent, settings |-> Absent]
          /\ saved = IF ListHistory(store) = <<>> THEN Following(<<>>) ELSE NotFollowing
          /\ e2e = IF ListHistory(store) = <<>> THEN 0 ELSE E2EOff
    /\ mainWindow = "null"
    /\ win = NoWindowState
    /\ saveWindowStateTimeout = 0
    /\ timers = {}
    /\ quitting = FALSE
    /\ lastCall = NoCall
    /\ burst = NoBurst
    /\ model = "ready"
    /\ pending = <<>>
    /\ app = Unmounted
    /\ acked = {}

(***************************************************************************)
(* Window constants (src/config/constants).                                *)
(***************************************************************************)
MIN_WINDOW_WIDTH == 800
MIN_WINDOW_HEIGHT == 600
DEFAULT_WINDOW_WIDTH == 1200
DEFAULT_WINDOW_HEIGHT == 800
WINDOW_DISPLAY_MARGIN == 100
MAX_DIMENSION_MULTIPLIER == 2

Min(a, b) == IF a <= b THEN a ELSE b

\* screen.getPrimaryDisplay().workArea at the time createWindow runs.
WorkAreas ==
    { [x |-> 0, y |-> 0, width |-> 1920, height |-> 1040],
      [x |-> 0, y |-> 0, width |-> 1000, height |-> 700] }

\* Sizes and positions the user gives the window; the window is created
\* with minWidth and minHeight, so no size is below them.
Sizes == { [width |-> 800, height |-> 600], [width |-> 1200, height |-> 800] }
Positions == { [x |-> 0, y |-> 0], [x |-> 100, y |-> 50] }

\* Nothing in the options of lines 120-137 limits the size from above: a
\* window stretched over a secondary display that is wider than twice the
\* primary one.
WideSizes == { [width |-> 4000, height |-> 1400] }

(***************************************************************************)
(* createWindow (src/main/main.ts lines 80-180).                           *)
(***************************************************************************)
defaultState ==
    [x |-> 0, y |-> 0, width |-> DEFAULT_WINDOW_WIDTH,
     height |-> DEFAULT_WINDOW_HEIGHT, isMaximized |-> FALSE]

\* WindowStateSchema.safeParse(data).success: an object with the five keys
\* (the objects of the model hold numbers and a boolean under them).
WindowStateSchemaOk(data) ==
    /\ data.kind = "object"
    /\ {"x", "y", "width", "height", "isMaximized"} \subseteq DOMAIN data.obj

\* WindowStateSchema.safeParse(data).data: the five keys and no other.
WindowStateSchemaData(o) ==
    [x |-> o.x, y |-> o.y, width |-> o.width, height |-> o.height,
     isMaximized |-> o.isMaximized]

\* validateWindowState(data): the value, or undefined (here: Absent).
validateWindowState(data) ==
    IF WindowStateSchemaOk(data) THEN Object(WindowStateSchemaData(data.obj)) ELSE Absent

isOffScreen(savedState, workArea) ==
    \/ savedState.x + savedState.width < workArea.x
    \/ savedState.x > workArea.x + workArea.width
    \/ savedState.y + savedState.height < workArea.y
    \/ savedState.y > workArea.y + workArea.height

hasInvalidDimensions(savedState, workArea) ==
    \/ savedState.width < MIN_WINDOW_WIDTH
    \/ savedState.height < MIN_WINDOW_HEIGHT
    \/ savedState.width > workArea.width * MAX_DIMENSION_MULTIPLIER
    \/ savedState.height > workArea.height * MAX_DIMENSION_MULTIPLIER

\* The geometry the window is opened with.
createWindowState(st, workArea) ==
    LET rawSavedState == StoreGet(st, "windowState", Object(defaultState))
        validated == validateWindowState(rawSavedState)
        savedState == IF validated.kind = "object" THEN validated.obj ELSE defaultState
        w == Min(DEFAULT_WINDOW_WIDTH, workArea.width - WINDOW_DISPLAY_MARGIN)
        h == Min(DEFAULT_WINDOW_HEIGHT, workArea.height - WINDOW_DISPLAY_MARGIN)
    IN  IF isOffScreen(savedState, workArea) \/ hasInvalidDimensions(savedState, workArea)
        THEN [x |-> ((workArea.width - w) \div 2) + workArea.x,
              y |-> ((workArea.height - h) \div 2) + workArea.y,
              width |-> w, height |-> h, isMaximized |-> savedState.isMaximized]
        ELSE savedState

(***************************************************************************)
(* The debounced writer (src/main/main.ts lines 58-78, 236-241).           *)
(***************************************************************************)
TimerHandles == 1..MaxTimers

\* The handle setTimeout returns: a new Timeout object, which is neither a
\* scheduled one nor the one the variable still refers to.
FreshHandles(scheduled, held) == (TimerHandles \ scheduled) \ {held}
NewHandle(scheduled, held) ==
    CHOOSE h \in FreshHandles(scheduled, held) :
        \A k \in FreshHandles(scheduled, held) : h <= k

clearTimeoutNoop(scheduled, handle) == scheduled

\* clearTimeout(handle)
clearTimeout(scheduled, handle) == scheduled \ {handle}

Debouncer(handle, scheduled) == [handle |-> handle, timers |-> scheduled]

saveWindowStateNoClear(d) ==
    LET h == NewHandle(d.timers, d.handle)
    IN  Debouncer(h, d.timers \cup {h})

saveWindowStateForgetsHandle(d) ==
    LET cleared == IF d.handle # 0 THEN clearTimeout(d.timers, d.handle) ELSE d.timers
        h == NewHandle(cleared, d.handle)
    IN  Debouncer(d.handle, cleared \cup {h})

\* saveWindowState(): cancel the timeout the variable refers to, schedule a
\* new one and keep its handle.
saveWindowState(d) ==
    LET cleared == IF d.handle # 0 THEN clearTimeout(d.timers, d.handle) ELSE d.timers
        h == NewHandle(cleared, d.handle)
    IN  Debouncer(h, cleared \cup {h})

TimeoutCallbackGuardInverted(window, bounds, st, fault) ==
    IF window # "alive"
    THEN IF fault = "set" THEN [wrote |-> FALSE, threw |-> TRUE, st |-> st]
         ELSE [wrote |-> TRUE, threw |-> FALSE,
               st |-> StoreSet(st, "windowState", Object(bounds))]
    ELSE [wrote |-> FALSE, threw |-> FALSE, st |-> st]

\* The callback given to setTimeout: write the window's geometry if the
\* window is still there.
TimeoutCallback(window, bounds, st, fault) ==
    IF window = "alive"
    THEN IF fault = "set" THEN [wrote |-> FALSE, threw |-> TRUE, st |-> st]
         ELSE [wrote |-> TRUE, threw |-> FALSE,
               st |-> StoreSet(st, "windowState", Object(bounds))]
    ELSE [wrote |-> FALSE, threw |-> FALSE, st |-> st]

BeforeQuitHandlerNoClear(d) ==
    IF d.handle # 0 THEN Debouncer(0, d.timers) ELSE d

\* app.on('before-quit')
BeforeQuitHandler(d) ==
    IF d.handle # 0 THEN Debouncer(0, clearTimeout(d.timers, d.handle)) ELSE d

(***************************************************************************)
(* Observer of the debounce bursts. A burst opens with a notification      *)
(* that finds the observer not in a burst, goes on with every further      *)
(* notification, and ends when its last timeout has fired ("done") or the  *)
(* before-quit handler ran on it ("cancelled"). n counts its notifications *)
(* (up to MaxBurst), writes the windowState writes made since it opened,   *)
(* geom is the geometry at its last notification, gone tells that the      *)
(* window that notified has been destroyed since.                          *)
(***************************************************************************)
BurstNotified(bounds) ==
    IF burst.phase = "open"
    THEN [burst EXCEPT !.n = Min(burst.n + 1, MaxBurst), !.geom = bounds, !.gone = FALSE]
    ELSE [phase |-> "open", n |-> 1, writes |-> 0, geom |-> bounds, gone |-> FALSE]

BurstFired(wrote, scheduled) ==
    IF burst.phase = "none" THEN burst
    ELSE [burst EXCEPT !.writes = burst.writes + (IF wrote THEN 1 ELSE 0),
                       !.phase = IF burst.phase = "open" /\ scheduled = {}
                                 THEN "done" ELSE burst.phase]

BurstQuit == IF burst.phase = "open" THEN [burst EXCEPT !.phase = "cancelled"] ELSE burst

BurstDestroyed == IF burst.phase = "open" THEN [burst EXCEPT !.gone = TRUE] ELSE burst

(***************************************************************************)
(* Window actions.                                                         *)
(***************************************************************************)
\* app.whenReady / app.on('activate'): createWindow() when there is no window.
Created(workArea) ==
    /\ mainWindow = "null"
    /\ ~quitting
    /\ mainWindow' = "alive"
    /\ win' = createWindowState(store, workArea)
    /\ UNCHANGED <<store, saveWindowStateTimeout, timers, quitting, burst, chatVars, model>>

CreateWindow(workArea) ==
    /\ Created(workArea)
    /\ lastCall' = Event("createWindow")

\* The same, the record of the call keeping the work area the display had.
CreateWindowOn(workArea) ==
    /\ Created(workArea)
    /\ lastCall' = [Event("createWindow") EXCEPT !.args = <<workArea>>]

\* The window takes the geometry `bounds` and emits the event of it; the
\* listener of lines 158-175 runs:
\* if (mainWindow && !mainWindow.isDestroyed()) saveWindowState()
Notified(bounds) ==
    /\ mainWindow = "alive"
    /\ FreshHandles(timers, saveWindowStateTimeout) # {}
    /\ LET d == saveWindowState(Debouncer(saveWindowStateTimeout, timers))
       IN  /\ saveWindowStateTimeout' = d.handle
           /\ timers' = d.timers
    /\ win' = bounds
    /\ burst' = BurstNotified(bounds)
    /\ UNCHANGED <<store, mainWindow, quitting, chatVars, model>>

Notify(op, bounds) ==
    /\ Notified(bounds)
    /\ lastCall' = Event(op)

Resize(size) ==
    /\ ~win.isMaximized
    /\ Notify("resize", [win EXCEPT !.width = size.width, !.height = size.height])

Move(position) ==
    /\ ~win.isMaximized
    /\ Notify("move", [win EXCEPT !.x = position.x, !.y = position.y])

Maximize ==
    /\ ~win.isMaximized
    /\ Notify("maximize", [win EXCEPT !.isMaximized = TRUE])

Unmaximize ==
    /\ win.isMaximized
    /\ Notify("unmaximize", [win EXCEPT !.isMaximized = FALSE])

\* A scheduled timeout fires: its callback runs.
TimerFire(handle, fault) ==
    /\ handle \in timers
    /\ LET r == TimeoutCallback(mainWindow, win, store, fault)
       IN  /\ store' = r.st
           /\ timers' = timers \ {handle}
           /\ burst' = BurstFired(r.wrote, timers \ {handle})
           /\ lastCall' = Call("timer", NoMessage, Undefined,
                               IF r.threw THEN fault ELSE "none",
                               IF r.wrote THEN "wrote" ELSE "skipped", <<>>, 0)
    /\ UNCHANGED <<mainWindow, win, saveWindowStateTimeout, quitting, chatVars, model>>

BeforeQuit ==
    /\ LET d == BeforeQuitHandler(Debouncer(saveWindowStateTimeout, timers))
       IN  /\ saveWindowStateTimeout' = d.handle
           /\ timers' = d.timers
    /\ quitting' = TRUE
    /\ burst' = BurstQuit
    /\ lastCall' = Event("before-quit")
    /\ UNCHANGED <<store, mainWindow, win, chatVars, model>>

\* The window is destroyed (closed by the user, by close() or by the quit).
Destroy ==
    /\ mainWindow = "alive"
    /\ mainWindow' = "destroyed"
    /\ burst' = BurstDestroyed
    /\ lastCall' = Event("destroy")
    /\ UNCHANGED <<store, win, saveWindowStateTimeout, timers, quitting, chatVars, model>>

\* mainWindow.on('closed'): mainWindow = null
Closed ==
    /\ mainWindow = "destroyed"
    /\ mainWindow' = "null"
    /\ win' = NoWindowState
    /\ lastCall' = Event("closed")
    /\ UNCHANGED <<store, saveWindowStateTimeout, timers, quitting, burst, chatVars, model>>

\* The event loop runs the callback of a scheduled timeout once its delay
\* (WINDOW_STATE_SAVE_DEBOUNCE_MS) has passed, unless it is cleared first.
TimerFires == \E handle \in TimerHandles, fault \in {"none", "set"} : TimerFire(handle, fault)

NextWindow ==
    \/ \E workArea \in WorkAreas : CreateWindow(workArea)
    \/ \E size \in Sizes : Resize(size)
    \/ \E position \in Positions : Move(position)
    \/ Maximize
    \/ Unmaximize
    \/ TimerFires
    \/ BeforeQuit
    \/ Destroy
    \/ Closed

\* The window and its debounced writer alone, the chat history untouched.
SpecWindow == Init /\ [][NextWindow]_vars

\* Fairness is per timeout: one that stays scheduled fires, while a
\* timeout that is replaced before its delay has passed need never fire.
SpecWindowFair ==
    SpecWindow /\ \A handle \in TimerHandles :
                     WF_vars(\E fault \in {"none", "set"} : TimerFire(handle, fault))

\* The window also taking the sizes of a wider secondary display.
NextWideWindow ==
    \/ NextWindow
    \/ \E size \in WideSizes : Resize(size)

SpecWideWindow == Init /\ [][NextWideWindow]_vars

(***************************************************************************)
(* Chat history actions: ipcMain.handle(channel, wrapper(handler)).        *)
(***************************************************************************)
ChatStep(call, st) ==
    /\ store' = st
    /\ lastCall' = call
    /\ saved' = SavedAfter(call, st)
    /\ e2e' = E2EAfter(call, st)
    /\ UNCHANGED <<windowVars, model, pending, rendererVars>>

GetChatHistory(fault) ==
    LET outcome == GetChatHistoryHandler(store, fault)
        thrown == StoreFailure(Hit(outcome, fault))
    IN  ChatStep(Failing(Call("getChatHistory", NoMessage, Undefined, Hit(outcome, fault),
                              wrapIpcHandler(outcome, "StorageError"), outcome.list,
                              Len(ListHistory(store))),
                         thrown, wrapIpcHandlerError(thrown, "StorageError")),
                 outcome.st)

SaveMessage(message, fault) ==
    LET outcome == SaveMessageHandler(store, message, fault)
        thrown == StoreFailure(Hit(outcome, fault))
    IN  ChatStep(Failing(Call("saveMessage", message, Undefined, Hit(outcome, fault),
                              wrapIpcBooleanHandler(outcome), <<>>, Len(ListHistory(store))),
                         thrown, wrapIpcBooleanHandlerError(thrown)),
                 outcome.st)

ClearHistory(fault) ==
    LET outcome == ClearHistoryHandler(store, fault)
        thrown == StoreFailure(Hit(outcome, fault))
    IN  ChatStep(Failing(Call("clearHistory", NoMessage, Undefined, Hit(outcome, fault),
                              wrapIpcBooleanHandler(outcome), <<>>, Len(ListHistory(store))),
                         thrown, wrapIpcBooleanHandlerError(thrown)),
                 outcome.st)

DeleteMessage(messageId, fault) ==
    LET outcome == DeleteMessageHandler(store, messageId, fault)
        thrown == StoreFailure(Hit(outcome, fault))
    IN  ChatStep(Failing(Call("deleteMessage", NoMessage, messageId, Hit(outcome, fault),
                              wrapIpcBooleanHandler(outcome), <<>>, Len(ListHistory(store))),
                         thrown, wrapIpcBooleanHandlerError(thrown)),
                 outcome.st)

NextHistory ==
    \/ \E fault \in Faults : GetChatHistory(fault)
    \/ \E message \in Messages, fault \in Faults : SaveMessage(message, fault)
    \/ \E fault \in Faults : ClearHistory(fault)
    \/ \E messageId \in MessageIds, fault \in Faults : DeleteMessage(messageId, fault)

\* The chat-history handlers alone, the window untouched.
SpecHistory == Init /\ [][NextHistory]_vars

(***************************************************************************)
(* Calls in flight. ipcRenderer.invoke returns a promise: the renderer may *)
(* send a further call before the reply to the last one has come. In the   *)
(* main process each call is one task of the event loop: the wrapper calls *)
(* the handler, whose body has no await and so runs from its first line to *)
(* its return with no other handler in between (main.ts 333-352,           *)
(* ipc-wrapper.ts 47-50); the reply travels back afterwards. `pending`     *)
(* holds, in the order the handlers were invoked, the calls handled and    *)
(* not yet replied; replies arrive in that order.                          *)
(***************************************************************************)
\* What of a call is kept while its reply is on its way.
InFlight(call) == [op |-> call.op, msg |-> call.msg, id |-> call.id, result |-> call.result]

\* The handler of a call runs: the store takes its effect, the reply is due.
\* The observers of the sequential calls stop following.
Handled(call, st) ==
    /\ Len(pending) < MaxInFlight
    /\ store' = st
    /\ lastCall' = call
    /\ pending' = Append(pending, InFlight(call))
    /\ saved' = NotFollowing
    /\ e2e' = E2EOff
    /\ UNCHANGED <<windowVars, model, rendererVars>>

SaveMessageHandled(message, fault) ==
    LET outcome == SaveMessageHandler(store, message, fault)
        thrown == StoreFailure(Hit(outcome, fault))
    IN  Handled(Failing(Call("saveMessage", message, Undefined, Hit(outcome, fault),
                             wrapIpcBooleanHandler(outcome), <<>>, Len(ListHistory(store))),
                        thrown, wrapIpcBooleanHandlerError(thrown)),
                outcome.st)

DeleteMessageHandled(messageId, fault) ==
    LET outcome == DeleteMessageHandler(store, messageId, fault)
        thrown == StoreFailure(Hit(outcome, fault))
    IN  Handled(Failing(Call("deleteMessage", NoMessage, messageId, Hit(outcome, fault),
                             wrapIpcBooleanHandler(outcome), <<>>, Len(ListHistory(store))),
                        thrown, wrapIpcBooleanHandlerError(thrown)),
                outcome.st)

\* The renderer receives the reply of the call handled first.
Replied ==
    /\ pending # <<>>
    /\ pending' = Tail(pending)
    /\ lastCall' = Event("reply")
    /\ UNCHANGED <<store, windowVars, model, saved, e2e, rendererVars>>

NextInFlight ==
    \/ \E message \in {MsgA, MsgB, [MsgA EXCEPT !.content = Undefined]},
          fault \in {"none", "set"} : SaveMessageHandled(message, fault)
    \/ \E fault \in {"none", "set"} : DeleteMessageHandled(Str("a"), fault)
    \/ Replied

SpecInFlight == Init /\ [][NextInFlight]_vars

(***************************************************************************)
(* Handlers that return a value: outcomes with the value and the error.    *)
(***************************************************************************)
Returns(value, st) ==
    [threw |-> FALSE, ok |-> TRUE, list |-> <<>>, st |-> st, value |-> value,
     thrown |-> Nothing]
Throws(thrown, st) ==
    [threw |-> TRUE, ok |-> FALSE, list |-> <<>>, st |-> st, value |-> Undefined,
     thrown |-> thrown]

\* wrapIpcHandler, try branch: const result = await handler(...args); return result
wrapIpcHandlerValue(outcome) == outcome.value

\* A boolean as a returned value.
Bool(b) == [t |-> "boolean", b |-> b]

(***************************************************************************)
(* Settings and window-state handlers (src/main/main.ts lines 252-272).    *)
(***************************************************************************)
\* SettingsSchema = z.object({}): any object passes, nothing else does.
SettingsSchemaOk(value) == value.kind = "object"

\* SettingsSchema.safeParse(value).data: the schema has no keys, every key
\* of the input is dropped.
SettingsSchemaData(o) == EmptyObject

\* validateSettings(data)
validateSettings(data) ==
    IF SettingsSchemaOk(data) THEN Object(SettingsSchemaData(data.obj))
    ELSE Object(EmptyObject)

GetSettingsHandlerRepairing(st, fault) ==
    IF fault = "get" THEN Throws(StoreFailure(fault), st)
    ELSE LET settings == validateSettings(StoreGet(st, "settings", Object(EmptyObject)))
         IN  Returns(settings, StoreSet(st, "settings", settings))

\* GET_SETTINGS
GetSettingsHandler(st, fault) ==
    IF fault = "get" THEN Throws(StoreFailure(fault), st)
    ELSE Returns(validateSettings(StoreGet(st, "settings", Object(EmptyObject))), st)

\* SET_SETTINGS
SetSettingsHandler(st, value, fault) ==
    IF ~SettingsSchemaOk(value) THEN Return(FALSE, <<>>, st)
    ELSE IF fault = "set" THEN Throw(st)
    ELSE Return(TRUE, <<>>, StoreSet(st, "settings", Object(SettingsSchemaData(value.obj))))

GetWindowStateHandlerUnvalidated(st, fault) ==
    IF fault = "get" THEN Throws(StoreFailure(fault), st)
    ELSE Returns(StoreGet(st, "windowState", Absent), st)

\* GET_WINDOW_STATE
GetWindowStateHandler(st, fault) ==
    IF fault = "get" THEN Throws(StoreFailure(fault), st)
    ELSE Returns(validateWindowState(StoreGet(st, "windowState", Absent)), st)

\* Arguments of setSettings.
SettingsValues ==
    { Object(EmptyObject), Object([theme |-> "dark"]), Primitive("string"),
      Primitive("null"), Array(<<>>), Absent }

(***************************************************************************)
(* GET_AI_STATUS (lines 275-281), registered without a wrapper.            *)
(***************************************************************************)
GetAiStatusHandler(m) ==
    [isInitialized |-> m # "null", hasApiKey |-> m # "null",
     modelName |-> "gemini-1.5-flash"]

(***************************************************************************)
(* Window control handlers (lines 284-302).                                *)
(***************************************************************************)
\* mainWindow?.method(): nothing is called when mainWindow is null; a method
\* of a BrowserWindow that has been destroyed throws.
ObjectDestroyed == ErrorOf("Object has been destroyed")

\* WINDOW_MINIMIZE, WINDOW_CLOSE: mainWindow?.minimize(), mainWindow?.close()
WindowMethodHandler(window, st) ==
    IF window = "destroyed" THEN Throws(ObjectDestroyed, st) ELSE Returns(Undefined, st)

\* WINDOW_IS_MAXIMIZED: mainWindow?.isMaximized() || false
WindowIsMaximizedHandler(window, bounds, st) ==
    IF window = "destroyed" THEN Throws(ObjectDestroyed, st)
    ELSE IF window = "alive" THEN Returns(Bool(bounds.isMaximized), st)
    ELSE Returns(Bool(FALSE), st)

(***************************************************************************)
(* Strings of the image analysis, as sequences of characters.              *)
(***************************************************************************)
Text(cs) == [t |-> "string", cs |-> cs]
NotText == [t |-> "number", cs |-> <<>>]

UpperCase == <<"A", "B", "C", "D", "E", "F", "G", "H", "I", "J", "K", "L", "M", "N", "O", "P", "Q", "R", "S", "T", "U", "V", "W", "X", "Y", "Z">>
LowerCase == <<"a", "b", "c", "d", "e", "f", "g", "h", "i", "j", "k", "l", "m", "n", "o", "p", "q", "r", "s", "t", "u", "v", "w", "x", "y", "z">>
Digits == {"0", "1", "2", "3", "4", "5", "6", "7", "8", "9"}
Whitespace == {" "}

Range(seq) == {seq[i] : i \in 1..Len(seq)}

\* One character of String.prototype.toLowerCase().
LowerChar(c) ==
    IF c \in Range(UpperCase)
    THEN LowerCase[CHOOSE i \in 1..Len(UpperCase) : UpperCase[i] = c]
    ELSE c

toLowerCase(cs) == [i \in 1..Len(cs) |-> LowerChar(cs[i])]

\* !s.trim(): nothing is left of s when the whitespace around it is removed.
TrimIsEmpty(cs) == \A i \in 1..Len(cs) : cs[i] \in Whitespace

\* ALLOWED_IMAGE_TYPES
ALLOWED_IMAGE_TYPES ==
    { <<"i", "m", "a", "g", "e", "/", "j", "p", "e", "g">>,
      <<"i", "m", "a", "g", "e", "/", "j", "p", "g">>,
      <<"i", "m", "a", "g", "e", "/", "p", "n", "g">>,
      <<"i", "m", "a", "g", "e", "/", "g", "i", "f">>,
      <<"i", "m", "a", "g", "e", "/", "w", "e", "b", "p">> }

BASE64_PADDING_DIVISOR == 4

(***************************************************************************)
(* Validation (src/utils/validation.ts).                                   *)
(***************************************************************************)
\* The characters of the class [A-Za-z0-9+/].
Base64Chars == Range(UpperCase) \cup Range(LowerCase) \cup Digits \cup {"+", "/"}

\* /^[A-Za-z0-9+/]*={0,2}$/.test(data)
base64Regex(cs) ==
    \E padding \in 0..2 :
        /\ padding <= Len(cs)
        /\ \A i \in 1..Len(cs) :
              IF i <= Len(cs) - padding THEN cs[i] \in Base64Chars ELSE cs[i] = "="

validateBase64NoLength(data) ==
    /\ data.t = "string" /\ data.cs # <<>>
    /\ base64Regex(data.cs)

\* validateBase64(data)
validateBase64(data) ==
    /\ data.t = "string" /\ data.cs # <<>>
    /\ base64Regex(data.cs)
    /\ Len(data.cs) % BASE64_PADDING_DIVISOR = 0

\* validateMimeType(mimeType): the comparison is made in lower case.
validateMimeType(mimeType) ==
    /\ mimeType.t = "string" /\ mimeType.cs # <<>>
    /\ toLowerCase(mimeType.cs) \in ALLOWED_IMAGE_TYPES

Valid == [isValid |-> TRUE, error |-> Undefined]
Invalid(error) == [isValid |-> FALSE, error |-> Str(error)]

\* validateImageData(imageBase64, mimeType)
validateImageData(imageBase64, mimeType) ==
    IF imageBase64.t # "string" \/ imageBase64.cs = <<>>
    THEN Invalid("Image data is required and must be a valid string")
    ELSE IF mimeType.t # "string" \/ mimeType.cs = <<>>
    THEN Invalid("MIME type is required and must be a valid string")
    ELSE IF ~validateMimeType(mimeType)
    THEN Invalid("Unsupported image format")
    ELSE IF ~validateBase64(imageBase64)
    THEN Invalid("Invalid image data format. Expected valid base64 encoding.")
    ELSE Valid

(***************************************************************************)
(* Image analysis (src/main/main.ts lines 183-217, 305-325).               *)
(***************************************************************************)
\* The response envelope, and the call of the generative model made for it.
Success(text, call) ==
    [envelope |-> [success |-> TRUE, text |-> Str(text), error |-> Undefined],
     service |-> call, threw |-> FALSE]
Failure(error, call) ==
    [envelope |-> [success |-> FALSE, text |-> Undefined, error |-> Str(error)],
     service |-> call, threw |-> FALSE]
Escapes(thrown, call) ==
    [envelope |-> [success |-> FALSE, text |-> Undefined, error |-> Undefined],
     service |-> call, threw |-> TRUE]

analyzeImageNoCatch(m, imageBase64, mimeType, prompt, generated) ==
    IF m = "null"
    THEN Failure("Google Generative AI not initialized. Check your API key.", NotInvoked)
    ELSE IF imageBase64.cs = <<>> \/ mimeType.cs = <<>> \/ prompt.cs = <<>>
    THEN Failure("Missing required parameters: imageBase64, mimeType, or prompt", NotInvoked)
    ELSE IF mimeType.cs \notin ALLOWED_IMAGE_TYPES
    THEN Failure("Unsupported image type", NotInvoked)
    ELSE LET call == [generated EXCEPT !.mimeType = mimeType.cs]
         IN  IF generated.kind = "throws"
             THEN Escapes(generated.thrown, call)
             ELSE Success(generated.text, call)

\* analyzeImage(imageBase64, mimeType, prompt), with `generated` what the
\* generative model does if it is called. The catch of lines 210-216 also
\* covers result.response.text() throwing.
analyzeImage(m, imageBase64, mimeType, prompt, generated) ==
    IF m = "null"
    THEN Failure("Google Generative AI not initialized. Check your API key.", NotInvoked)
    ELSE IF imageBase64.cs = <<>> \/ mimeType.cs = <<>> \/ prompt.cs = <<>>
    THEN Failure("Missing required parameters: imageBase64, mimeType, or prompt", NotInvoked)
    ELSE IF mimeType.cs \notin ALLOWED_IMAGE_TYPES
    THEN Failure("Unsupported image type", NotInvoked)
    ELSE LET call == [generated EXCEPT !.mimeType = mimeType.cs]
         IN  IF generated.kind = "throws"
             THEN Failure(IF generated.thrown.kind = "Error"
                          THEN generated.thrown.message
                          ELSE "Unknown error occurred during analysis", call)
             ELSE Success(generated.text, call)

\* ANALYZE_IMAGE
AnalyzeImageHandler(m, imageBase64, mimeType, prompt, generated) ==
    IF imageBase64.t # "string" \/ mimeType.t # "string" \/ prompt.t # "string"
    THEN Failure("Invalid arguments: imageBase64, mimeType, and prompt must all be strings",
                 NotInvoked)
    ELSE IF TrimIsEmpty(imageBase64.cs) \/ TrimIsEmpty(mimeType.cs) \/ TrimIsEmpty(prompt.cs)
    THEN Failure("Invalid arguments: imageBase64, mimeType, and prompt cannot be empty",
                 NotInvoked)
    ELSE LET validation == validateImageData(imageBase64, mimeType)
         IN  IF ~validation.isValid
             THEN Failure(validation.error.s, NotInvoked)
             ELSE analyzeImage(m, imageBase64, Text(toLowerCase(mimeType.cs)), prompt,
                               generated)

\* Arguments of analyzeImage.
ImageDatas ==
    { NotText, Text(<<>>), Text(<<" ", " ", " ", " ">>), Text(<<"A", "A", "A", "A">>),
      Text(<<"A", "A", "=", "=">>), Text(<<"A", "=", "=", "=">>), Text(<<"A", "A", "A">>),
      Text(<<"A", "A", "=", "A">>), Text(<<"A", "B", "!", "D">>) }
MimeTypes ==
    { NotText, Text(<<>>), Text(<<"i", "m", "a", "g", "e", "/", "p", "n", "g">>), Text(<<"I", "M", "A", "G", "E", "/", "P", "N", "G">>), Text(<<"i", "m", "a", "g", "e", "/", "b", "m", "p">>) }
Prompts == { NotText, Text(<<>>), Text(<<" ">>), Text(<<"H", "i">>) }

\* What the generative model may do when called.
ServiceOutcomes ==
    { Generates("A landscape in oil."), Fails(ErrorOf("429 Too Many Requests")),
      Fails(NonError) }

(***************************************************************************)
(* The registrations: ipcMain.handle(channel, ...) of lines 252-364, each  *)
(* with the wrapper its handler is passed through.                         *)
(***************************************************************************)
Registrations ==
    [ getSettings |-> "wrapIpcHandler",
      setSettings |-> "wrapIpcBooleanHandler",
      getWindowState |-> "wrapIpcHandler",
      getAiStatus |-> "none",
      minimizeWindow |-> "wrapIpcHandler",
      maximizeWindow |-> "wrapIpcHandler",
      closeWindow |-> "wrapIpcHandler",
      isWindowMaximized |-> "wrapIpcHandler",
      analyzeImage |-> "wrapIpcHandler",
      getChatHistory |-> "wrapIpcHandler",
      saveMessage |-> "wrapIpcBooleanHandler",
      clearHistory |-> "wrapIpcBooleanHandler",
      deleteMessage |-> "wrapIpcBooleanHandler" ]

(***************************************************************************)
(* The other boundary operations as actions.                               *)
(***************************************************************************)
\* The record of a call of a handler wrapped by wrapIpcHandler.
ValueCall(op, args, fault, outcome, errorType) ==
    [Call(op, NoMessage, Undefined, Hit(outcome, fault),
          wrapIpcHandler(outcome, errorType), <<>>, 0)
       EXCEPT !.args = args,
              !.reply = IF outcome.threw THEN Undefined ELSE wrapIpcHandlerValue(outcome),
              !.thrown = outcome.thrown,
              !.error = wrapIpcHandlerError(outcome.thrown, errorType)]

BoundaryStep(call, st) ==
    /\ store' = st
    /\ lastCall' = call
    /\ UNCHANGED <<windowVars, chatVars, model>>

GetSettings(fault) ==
    LET outcome == GetSettingsHandler(store, fault)
    IN  BoundaryStep(ValueCall("getSettings", <<>>, fault, outcome, "StorageError"),
                     outcome.st)

SetSettings(value, fault) ==
    LET outcome == SetSettingsHandler(store, value, fault)
        thrown == StoreFailure(Hit(outcome, fault))
    IN  BoundaryStep([Failing(Call("setSettings", NoMessage, Undefined, Hit(outcome, fault),
                                   wrapIpcBooleanHandler(outcome), <<>>, 0),
                              thrown, wrapIpcBooleanHandlerError(thrown))
                        EXCEPT !.args = <<value>>],
                     outcome.st)

GetWindowState(fault) ==
    LET outcome == GetWindowStateHandler(store, fault)
    IN  BoundaryStep(ValueCall("getWindowState", <<>>, fault, outcome, "StorageError"),
                     outcome.st)

\* The handler is registered as it is: what it returns is returned, what
\* it throws is thrown; it throws nothing.
GetAiStatus ==
    BoundaryStep([Call("getAiStatus", NoMessage, Undefined, "none", "value", <<>>, 0)
                    EXCEPT !.reply = GetAiStatusHandler(model)],
                 store)

WindowMinimize ==
    LET outcome == WindowMethodHandler(mainWindow, store)
    IN  BoundaryStep(ValueCall("minimizeWindow", <<>>, "none", outcome, "WindowControlError"),
                     store)

\* close() asks the window to close; the window is destroyed later (Destroy).
WindowClose ==
    LET outcome == WindowMethodHandler(mainWindow, store)
    IN  BoundaryStep(ValueCall("closeWindow", <<>>, "none", outcome, "WindowControlError"),
                     store)

\* WINDOW_MAXIMIZE: unmaximize() if the window is maximized, else maximize();
\* the window emits the event of it and the listener of lines 164-175 runs.
WindowMaximize ==
    LET outcome == WindowMethodHandler(mainWindow, store)
        call == ValueCall("maximizeWindow", <<>>, "none", outcome, "WindowControlError")
    IN  IF mainWindow = "alive"
        THEN /\ Notified([win EXCEPT !.isMaximized = ~win.isMaximized])
             /\ lastCall' = call
        ELSE BoundaryStep(call, store)

WindowIsMaximized ==
    LET outcome == WindowIsMaximizedHandler(mainWindow, win, store)
    IN  BoundaryStep(ValueCall("isWindowMaximized", <<>>, "none", outcome,
                               "WindowControlError"),
                     store)

AnalyzeImage(imageBase64, mimeType, prompt, generated) ==
    LET r == AnalyzeImageHandler(model, imageBase64, mimeType, prompt, generated)
        outcome == IF r.threw THEN Throws(r.service.thrown, store)
                   ELSE Returns(r.envelope, store)
    IN  BoundaryStep([ValueCall("analyzeImage", <<imageBase64, mimeType, prompt>>, "none",
                                outcome, "ImageAnalysisError")
                        EXCEPT !.service = r.service],
                     store)

(***************************************************************************)
(* Initial states of the boundary: the store file as a first launch, a     *)
(* regular run, or an edit or an older version left it; the API key set    *)
(* or not.                                                                 *)
(***************************************************************************)
FirstLaunch == [chatHistory |-> Absent, windowState |-> Absent, settings |-> Absent]

InitialStores ==
    { FirstLaunch,
      [chatHistory |-> Array(<<MsgB>>),
       windowState |-> Object([x |-> 100, y |-> 50, width |-> 800, height |-> 600,
                               isMaximized |-> FALSE]),
       settings |-> Object(EmptyObject)],
      [chatHistory |-> Primitive("string"), windowState |-> Primitive("string"),
       settings |-> Primitive("string")],
      [chatHistory |-> Array(<<MsgB, [MsgB EXCEPT !.role = Str("system")]>>),
       windowState |-> Object([x |-> 100, y |-> 50, width |-> 800]),
       settings |-> Array(<<>>)],
      [chatHistory |-> Array([i \in 1..(ChatHistorySchemaMax + 1) |-> MsgB]),
       windowState |-> Absent,
       settings |-> Object([theme |-> "dark"])] }

Models == {"null", "ready"}

InitWith(st, m) ==
    /\ store = st
    /\ saved = IF ListHistory(store) = <<>> THEN Following(<<>>) ELSE NotFollowing
    /\ e2e = IF ListHistory(store) = <<>> THEN 0 ELSE E2EOff
    /\ mainWindow = "null"
    /\ win = NoWindowState
    /\ saveWindowStateTimeout = 0
    /\ timers = {}
    /\ quitting = FALSE
    /\ lastCall = NoCall
    /\ burst = NoBurst
    /\ model = m
    /\ pending = <<>>
    /\ app = Unmounted
    /\ acked = {}

InitStore == \E st \in InitialStores : InitWith(st, "ready")

\* The operations that read or write the store, the chat-history ones with
\* a few arguments each (SpecHistory runs them on all).
NextStore ==
    \/ \E fault \in {"none", "get"} : GetSettings(fault)
    \/ \E value \in SettingsValues, fault \in {"none", "set"} : SetSettings(value, fault)
    \/ \E fault \in {"none", "get"} : GetWindowState(fault)
    \/ \E fault \in {"none", "get"} : GetChatHistory(fault)
    \/ \E message \in {MsgA, [MsgA EXCEPT !.content = Undefined]}, fault \in Faults :
          SaveMessage(message, fault)
    \/ \E fault \in {"none", "set"} : ClearHistory(fault)
    \/ \E fault \in Faults : DeleteMessage(Str("a"), fault)

SpecStore == InitStore /\ [][NextStore]_vars

\* The operations that write the store, each on a store whose other keys
\* hold something: the writing handlers and the debounced writer of the
\* window.
InitFrame ==
    \E st \in {i \in InitialStores : i.chatHistory.kind # "undefined"
                                      /\ i.settings.kind # "undefined"} :
        InitWith(st, "ready")

NextFrame ==
    \/ \E value \in {Object([theme |-> "dark"]), Primitive("string")},
          fault \in {"none", "set"} : SetSettings(value, fault)
    \/ \E fault \in {"none", "set"} : SaveMessage(MsgA, fault)
    \/ \E fault \in {"none", "set"} : ClearHistory(fault)
    \/ \E fault \in {"none", "set"} : DeleteMessage(Str("b"), fault)
    \/ CreateWindow([x |-> 0, y |-> 0, width |-> 1920, height |-> 1040])
    \/ \E size \in Sizes : Resize(size)
    \/ TimerFires

SpecFrame == InitFrame /\ [][NextFrame]_vars

InitBoundary == \E st \in InitialStores, m \in Models : InitWith(st, m)

\* The operations that return a value or raise an error, the image analysis
\* with a few arguments (SpecAnalyze runs it on all), and the window being
\* created, destroyed and closed.
NextBoundary ==
    \/ \E fault \in {"none", "get"} : GetSettings(fault)
    \/ \E fault \in {"none", "get"} : GetWindowState(fault)
    \/ \E fault \in {"none", "get"} : GetChatHistory(fault)
    \/ GetAiStatus
    \/ WindowMinimize
    \/ WindowMaximize
    \/ WindowClose
    \/ WindowIsMaximized
    \/ \E imageBase64 \in {Text(<<"A", "A", "A", "A">>), Text(<<"A", "A", "A">>)},
          generated \in ServiceOutcomes :
          AnalyzeImage(imageBase64, Text(<<"i", "m", "a", "g", "e", "/", "p", "n", "g">>),
                       Text(<<"H", "i">>), generated)
    \/ \E workArea \in WorkAreas : CreateWindow(workArea)
    \/ Destroy
    \/ Closed

SpecBoundary == InitBoundary /\ [][NextBoundary]_vars

InitAnalyze == \E m \in Models : InitWith(FirstLaunch, m)

\* The image analysis on all its arguments.
NextAnalyze ==
    \/ \E imageBase64 \in ImageDatas, mimeType \in MimeTypes, prompt \in Prompts,
          generated \in ServiceOutcomes :
          AnalyzeImage(imageBase64, mimeType, prompt, generated)
    \/ GetAiStatus

SpecAnalyze == InitAnalyze /\ [][NextAnalyze]_vars

(***************************************************************************)
(* The window state being loaded: createWindow on what the store file      *)
(* holds under windowState, on displays of several work areas.             *)
(***************************************************************************)
\* Work areas of primary displays: a large one, a small one, one of a
\* display 800 wide, and one beside a dock and under a menu bar.
LoadWorkAreas ==
    WorkAreas \cup { [x |-> 0, y |-> 0, width |-> 800, height |-> 600],
                    [x |-> 80, y |-> 25, width |-> 1600, height |-> 875] }

Geometry(x, y, width, height, isMaximized) ==
    [x |-> x, y |-> y, width |-> width, height |-> height, isMaximized |-> isMaximized]

\* What the timeout callback has written in earlier runs: the bounds of a
\* window wherever the user had it, on this or on another display.
SavedWindowStates ==
    { Geometry(100, 50, 800, 600, FALSE),
      Geometry(0, 0, 1200, 800, TRUE),
      Geometry(360, 120, 1200, 800, FALSE),
      Geometry(-1000, 0, 800, 600, FALSE),
      Geometry(-800, 0, 800, 600, FALSE),
      Geometry(-799, 0, 800, 600, FALSE),
      Geometry(1920, 0, 800, 600, FALSE),
      Geometry(1921, 0, 800, 600, TRUE),
      Geometry(1000, 100, 800, 600, FALSE),
      Geometry(0, -700, 800, 600, FALSE),
      Geometry(0, 1040, 800, 600, FALSE),
      Geometry(0, 2000, 800, 600, FALSE),
      Geometry(100, 50, 4000, 1400, FALSE),
      Geometry(100, 50, 1700, 1300, FALSE),
      Geometry(100, 50, 2000, 1400, TRUE) }

\* Nothing under windowState, values the schema refuses, and sizes below
\* minWidth and minHeight, which the callback does not write and a file
\* edited by hand or left by another version holds.
OtherWindowStates ==
    { Absent, Primitive("string"), Object([x |-> 100, y |-> 50, width |-> 800]),
      Object(Geometry(100, 50, 640, 480, FALSE)),
      Object(Geometry(100, 50, 1200, 500, FALSE)) }

InitLoad ==
    \E data \in {Object(o) : o \in SavedWindowStates} \cup OtherWindowStates :
        InitWith([FirstLaunch EXCEPT !.windowState = data], "ready")

NextLoad ==
    \/ \E workArea \in LoadWorkAreas : CreateWindowOn(workArea)
    \/ \E fault \in {"none", "get"} : GetWindowState(fault)
    \/ Destroy
    \/ Closed

SpecLoad == InitLoad /\ [][NextLoad]_vars

(***************************************************************************)
(* The renderer (src/renderer/App.tsx). Each handler is one action, run to *)
(* its end with the calls it awaits, which are handled by the main process *)
(* as above: the input is disabled while a submit is running (isLoading,   *)
(* line 293).                                                              *)
(***************************************************************************)
\* generateMessageId() and Date.now() of the k-th message created.
NewMessage(k, role, content) ==
    Msg(Str(ToString(k)), Str(role), content, Num(k), Undefined, Undefined)

\* The image and the prompt the user submits.
SubmittedImage == Text(<<"A", "A", "A", "A">>)
SubmittedMimeType == Text(<<"i", "m", "a", "g", "e", "/", "p", "n", "g">>)
SubmittedPrompt == Text(<<"H", "i">>)

\* What a handler leaves: the React state, the store, the last call it made
\* and the messages whose save it saw return true.
Handler(a, st, call, savedTrue) == [app |-> a, st |-> st, call |-> call, savedTrue |-> savedTrue]

\* window.electronAPI.saveMessage(message), as handled by the main process.
saveMessageCall(st, message, fault) ==
    LET outcome == SaveMessageHandler(st, message, fault)
        thrown == StoreFailure(Hit(outcome, fault))
    IN  [st |-> outcome.st,
         call |-> Failing(Call("saveMessage", message, Undefined, Hit(outcome, fault),
                               wrapIpcBooleanHandler(outcome), <<>>, Len(ListHistory(st))),
                          thrown, wrapIpcBooleanHandlerError(thrown))]

\* window.electronAPI.clearHistory()
clearHistoryCall(st, fault) ==
    LET outcome == ClearHistoryHandler(st, fault)
        thrown == StoreFailure(Hit(outcome, fault))
    IN  [st |-> outcome.st,
         call |-> Failing(Call("clearHistory", NoMessage, Undefined, Hit(outcome, fault),
                               wrapIpcBooleanHandler(outcome), <<>>, Len(ListHistory(st))),
                          thrown, wrapIpcBooleanHandlerError(thrown))]

\* loadChatHistory (lines 25-34), run on mount.
loadChatHistory(a, st, fault) ==
    LET outcome == GetChatHistoryHandler(st, fault)
        thrown == StoreFailure(Hit(outcome, fault))
        call == Failing(Call("getChatHistory", NoMessage, Undefined, Hit(outcome, fault),
                             wrapIpcHandler(outcome, "StorageError"), outcome.list,
                             Len(ListHistory(st))),
                        thrown, wrapIpcHandlerError(thrown, "StorageError"))
    IN  IF outcome.threw
        THEN Handler([a EXCEPT !.mounted = TRUE, !.error = "Failed to load chat history"],
                     st, call, {})
        ELSE Handler([a EXCEPT !.mounted = TRUE, !.chatHistory = outcome.list,
                                !.currentMessages = outcome.list],
                     st, call, {outcome.list[i] : i \in 1..Len(outcome.list)})

\* handleSubmit (lines 52-149) with an image and a prompt; fault1 and fault2
\* are what the store does in the two saves, generated what the model does.
handleSubmit(a, st, m, generated, fault1, fault2) ==
    LET userMessage == NewMessage(a.made + 1, "user", Str("Hi"))
        updatedMessages == Append(a.currentMessages, userMessage)
        userSave == saveMessageCall(st, userMessage, fault1)
        result == AnalyzeImageHandler(m, SubmittedImage, SubmittedMimeType,
                                      SubmittedPrompt, generated).envelope
        assistantMessage ==
            NewMessage(a.made + 2, "assistant",
                       IF result.success /\ result.text # Str("")
                       THEN result.text
                       ELSE Str("Sorry, I encountered an error while analyzing the image"))
        finalMessages == Append(updatedMessages, assistantMessage)
        assistantSave == saveMessageCall(userSave.st, assistantMessage, fault2)
    IN  IF userSave.call.result # "true"
        THEN Handler([a EXCEPT !.currentMessages = updatedMessages, !.error = "",
                                !.saveError = "Failed to save message",
                                !.made = a.made + 1],
                     userSave.st, userSave.call, {})
        ELSE IF assistantSave.call.result # "true"
        THEN Handler([a EXCEPT !.currentMessages = finalMessages, !.error = "",
                                !.chatHistory = updatedMessages,
                                !.saveError = IF result.success /\ result.text # Str("")
                                              THEN "Response received but not saved"
                                              ELSE "Failed to save error message",
                                !.made = a.made + 2],
                     assistantSave.st, assistantSave.call, {userMessage})
        ELSE Handler([a EXCEPT !.currentMessages = finalMessages, !.error = "",
                                !.chatHistory = finalMessages, !.saveError = "",
                                !.made = a.made + 2],
                     assistantSave.st, assistantSave.call, {userMessage, assistantMessage})

\* handleRetrySave (lines 151-163)
handleRetrySave(a, st, fault) ==
    LET lastMessage == a.currentMessages[Len(a.currentMessages)]
        save == saveMessageCall(st, lastMessage, fault)
    IN  IF save.call.result = "true"
        THEN Handler([a EXCEPT !.saveError = "", !.chatHistory = a.currentMessages],
                     save.st, save.call, {lastMessage})
        ELSE Handler([a EXCEPT !.saveError = "Retry failed. Please try again."],
                     save.st, save.call, {})

\* handleClearHistory (lines 165-175): clearHistory() resolves to a boolean,
\* which is not looked at; the catch is for a rejected call.
handleClearHistory(a, st, fault) ==
    LET clear == clearHistoryCall(st, fault)
    IN  Handler([a EXCEPT !.chatHistory = <<>>, !.currentMessages = <<>>, !.error = ""],
                clear.st, clear.call, {})

\* handleNewChat (lines 193-197)
handleNewChat(a) == [a EXCEPT !.currentMessages = <<>>, !.error = ""]

RendererStep(r) ==
    /\ app' = r.app
    /\ store' = r.st
    /\ lastCall' = r.call
    /\ acked' = acked \cup r.savedTrue
    /\ saved' = NotFollowing
    /\ e2e' = E2EOff
    /\ UNCHANGED <<windowVars, model, pending>>

\* useEffect(() => { loadChatHistory(); ... }, [])
Mount(fault) ==
    /\ ~app.mounted
    /\ RendererStep(loadChatHistory(app, store, fault))

Submit(generated, fault1, fault2) ==
    /\ app.mounted
    /\ model = "ready"
    /\ app.made + 2 <= MaxMessages
    /\ RendererStep(handleSubmit(app, store, model, generated, fault1, fault2))

\* The Retry button of the save-error banner (lines 259-264).
RetrySave(fault) ==
    /\ app.mounted
    /\ app.saveError # ""
    /\ app.currentMessages # <<>>
    /\ RendererStep(handleRetrySave(app, store, fault))

ClearHistoryClicked(fault) ==
    /\ app.mounted
    /\ RendererStep(handleClearHistory(app, store, fault))

NewChat ==
    /\ app.mounted
    /\ app.currentMessages # <<>>
    /\ app' = handleNewChat(app)
    /\ lastCall' = Event("newChat")
    /\ UNCHANGED <<store, acked, saved, e2e, pending, windowVars, model>>

NextRenderer ==
    \/ \E fault \in {"none", "get"} : Mount(fault)
    \/ \E generated \in ServiceOutcomes, fault1 \in {"none", "set"},
          fault2 \in {"none", "set"} : Submit(generated, fault1, fault2)
    \/ \E fault \in {"none", "set"} : RetrySave(fault)
    \/ \E fault \in {"none", "set"} : ClearHistoryClicked(fault)
    \/ NewChat

\* The renderer's handlers on a store that holds no history or a valid one.
InitRenderer ==
    \E st \in {FirstLaunch, [FirstLaunch EXCEPT !.chatHistory = Array(<<MsgA, MsgB>>)]} :
        InitWith(st, "ready")

SpecRenderer == InitRenderer /\ [][NextRenderer]_vars

Next == NextHistory \/ NextWindow \/ NextStore \/ NextBoundary \/ NextAnalyze \/ NextLoad \/ NextInFlight \/ NextFrame \/ NextRenderer

Spec == Init /\ [][Next]_vars

(***************************************************************************)
(* Properties.                                                             *)
(***************************************************************************)
\* The entries the store file holds under chatHistory.
Stored(st) == st.chatHistory.items

\* A message reduced to the four fields of the specification's ChatMessage
\* {id, role, content, timestamp}; a message of that shape is its own
\* reduction.
FourFields(m) == [m EXCEPT !.imageData = Undefined, !.imageMimeType = Undefined]

\* The last k entries of a sequence.
LastEntries(seq, k) == SubSeq(seq, Len(seq) - Min(k, Len(seq)) + 1, Len(seq))

\* C1: in every state reached by saveMessage, deleteMessage and
\* clearHistory calls from an empty or valid stored history, the persisted
\* chatHistory has at most `capacity` entries.
C1_HistoryBounded == Len(Stored(store)) <= Cap

\* A save on a full history has happened and the history is still full.
C1_Witness ==
    /\ lastCall.op = "saveMessage" /\ lastCall.result = "true"
    /\ lastCall.found = Cap
    /\ Len(Stored(store)) = Cap

\* C2: from an empty history, after N saveMessage calls that returned true
\* (N up to MaxSaved, beyond the capacity), the stored history has length
\* min(N, capacity) and holds exactly the last `capacity` saved messages, in
\* the order they were saved. Each entry is the saved message in its four
\* fields, which is the message itself for a message of the shape
\* {id, role, content, timestamp}.
C2_BoundedGrowth ==
    saved.following =>
        LET n == Len(saved.msgs)
            expected == LastEntries(saved.msgs, Cap)
        IN  /\ Len(Stored(store)) = Min(n, Cap)
            /\ \A i \in 1..Min(n, Cap) :
                  /\ Stored(store)[i] = FourFields(expected[i])
                  /\ expected[i] \in {MsgA, MsgB} => Stored(store)[i] = expected[i]

\* More saves than the capacity, two of them evicted, of differing messages.
C2_Witness ==
    /\ saved.following
    /\ Len(saved.msgs) = Cap + 2
    /\ saved.msgs[1] = MsgA /\ saved.msgs[2] = MsgB /\ saved.msgs[3] = MsgA
    /\ saved.msgs[Cap + 2] = MsgB

\* What C4 calls a message that fails the ChatMessage schema.
FailsSchema(m) ==
    \/ m.id.t # "string"
    \/ m.content.t # "string"
    \/ ~(m.role.t = "string" /\ m.role.s \in {"user", "assistant"})
    \/ m.timestamp.t # "number"

\* C3: a saveMessage of a valid message, its store accesses not throwing,
\* returns true, removes max(0, newLength - capacity) entries from index 0
\* on, keeps the others in order and places the new message last: on a
\* history at capacity exactly the entry at index 0 goes, below capacity
\* nothing goes.
C3_EvictionOrder ==
    [][ (lastCall'.op = "saveMessage" /\ ~FailsSchema(lastCall'.msg) /\ lastCall'.fault = "none")
        => LET before == Stored(store)
               after == Stored(store')
               newLength == Len(before) + 1
               evicted == IF newLength > Cap THEN newLength - Cap ELSE 0
           IN  /\ lastCall'.result = "true"
               /\ after = SubSeq(before, evicted + 1, Len(before))
                             \o <<FourFields(lastCall'.msg)>>
               /\ Len(before) = Cap => after = Tail(before) \o <<FourFields(lastCall'.msg)>>
               /\ Len(before) < Cap => after = before \o <<FourFields(lastCall'.msg)>>
      ]_vars

\* A save of MsgB on a full history whose entry at index 0 was MsgA.
C3_Witness ==
    /\ lastCall.op = "saveMessage" /\ lastCall.result = "true" /\ lastCall.msg = MsgB
    /\ lastCall.found = Cap
    /\ saved.following /\ Len(saved.msgs) = Cap + 1 /\ saved.msgs[1] = MsgA
    /\ Stored(store)[Cap] = MsgB
    /\ \A i \in 1..(Cap - 1) : Stored(store)[i] = saved.msgs[i + 1]

\* C4: saveMessage with a message that fails the schema returns false and
\* leaves the persisted chatHistory (the whole store) as it was.
C4_RejectInvalid ==
    [][ (lastCall'.op = "saveMessage" /\ FailsSchema(lastCall'.msg))
        => (lastCall'.result = "false" /\ store' = store) ]_vars

\* A message without content was refused on a history that has entries.
C4_Witness ==
    /\ lastCall.op = "saveMessage" /\ lastCall.msg.content = Undefined
    /\ lastCall.result = "false"
    /\ Len(Stored(store)) = 2 /\ lastCall.found = 2

\* Whether a history has an entry with the id.
HasId(history, id) == \E i \in 1..Len(history) : history[i].id = id

\* C5: deleteMessage(id) for an id absent from the history (no store access
\* throwing) returns true and leaves the history unchanged; a deleteMessage
\* that follows a deleteMessage of the same id that returned true leaves the
\* history as that first call left it.
C5_IdempotentDelete ==
    [][ (lastCall'.op = "deleteMessage" /\ lastCall'.fault = "none")
        => /\ ~HasId(ListHistory(store), lastCall'.id)
                => (lastCall'.result = "true" /\ ListHistory(store') = ListHistory(store))
           /\ (lastCall.op = "deleteMessage" /\ lastCall.id = lastCall'.id
                  /\ lastCall.result = "true")
                => (lastCall'.result = "true" /\ ListHistory(store') = ListHistory(store))
      ]_vars

\* deleteMessage("a") returned true on a history of two entries, none of id "a".
C5_Witness ==
    /\ lastCall.op = "deleteMessage" /\ lastCall.id = Str("a") /\ lastCall.result = "true"
    /\ lastCall.found = 2 /\ Len(ListHistory(store)) = 2

\* The entries of a history whose id is not the given one, in their order.
RECURSIVE Remaining(_, _)
Remaining(history, id) ==
    IF history = <<>> THEN <<>>
    ELSE IF history[Len(history)].id = id
    THEN Remaining(SubSeq(history, 1, Len(history) - 1), id)
    ELSE Append(Remaining(SubSeq(history, 1, Len(history) - 1), id), history[Len(history)])

\* C6: deleteMessage(id) (no store access throwing) returns true, removes
\* every entry whose id is the argument, duplicates included, and keeps the
\* other entries in their order; whenever it returns true no entry with
\* that id remains.
C6_DeleteAllMatches ==
    [][ lastCall'.op = "deleteMessage"
        => /\ lastCall'.fault = "none"
                => /\ lastCall'.result = "true"
                   /\ ListHistory(store') = Remaining(ListHistory(store), lastCall'.id)
           /\ lastCall'.result = "true" => ~HasId(ListHistory(store'), lastCall'.id)
      ]_vars

\* deleteMessage("a") removed two entries and left one.
C6_Witness ==
    /\ lastCall.op = "deleteMessage" /\ lastCall.id = Str("a") /\ lastCall.result = "true"
    /\ lastCall.found = 3 /\ ListHistory(store) = <<MsgB>>

\* What the history reads after each step of the end-to-end scenario.
E2EExpected == << <<MsgA>>, <<MsgA, MsgB>>, <<MsgB>>, <<>> >>

\* C7: from an empty history the calls saveMessage(a), saveMessage(b),
\* deleteMessage("a"), clearHistory each return true, and getChatHistory
\* returns [a], [a, b], [b] and [] after them.
C7_Scenario ==
    e2e \in 1..Len(E2ESteps) =>
        /\ ListHistory(store) = E2EExpected[e2e]
        /\ lastCall.op # "getChatHistory" => lastCall.result = "true"
        /\ (lastCall.op = "getChatHistory" /\ lastCall.fault = "none")
              => (lastCall.result = "value" /\ lastCall.value = E2EExpected[e2e])

\* The whole scenario has run and the final getChatHistory returned [].
C7_Witness ==
    /\ e2e = Len(E2ESteps)
    /\ lastCall.op = "getChatHistory" /\ lastCall.result = "value" /\ lastCall.value = <<>>

\* A ChatMessage as the interface types it: id, content strings, role one of
\* the two literals, timestamp a number, imageData and imageMimeType
\* strings or missing.
WellFormedChatMessage(m) ==
    /\ m.id.t = "string" /\ m.content.t = "string" /\ m.timestamp.t = "number"
    /\ m.role.t = "string" /\ m.role.s \in {"user", "assistant"}
    /\ m.imageData.t \in {"string", "undefined"}
    /\ m.imageMimeType.t \in {"string", "undefined"}

\* C8: for a well-formed ChatMessage m, when saveMessage(m) returns true the
\* last entry getChatHistory then returns is equal to m.
C8_RoundTrip ==
    (lastCall.op = "saveMessage" /\ lastCall.result = "true"
        /\ WellFormedChatMessage(lastCall.msg))
    => (ListHistory(store) # <<>>
        /\ ListHistory(store)[Len(ListHistory(store))] = lastCall.msg)

\* C9 as stated, for store.set not throwing: when the timeout of a burst has
\* fired, exactly one windowState write has been made, of the geometry
\* current at the burst's last notification.
C9_ExactlyOneWrite ==
    (burst.phase = "done" /\ lastCall.op = "timer" /\ lastCall.fault = "none") =>
        (burst.writes = 1 /\ store.windowState = Object(burst.geom))

\* C9, amended: a burst of notifications, each arriving before the timeout
\* of the previous one fires, leads to at most one windowState write, made
\* when the burst's timeout fires: exactly one if the window is alive as the
\* timeout fires and store.set does not throw, none if the window is
\* destroyed or closed by then, or if the before-quit handler cancelled the
\* timeout. The value written is the window's geometry as the timeout
\* fires, which is the geometry current at the last notification unless the
\* window was destroyed (and created again) in between.
C9_BurstCoalesced ==
    /\ burst.phase = "open" => (burst.writes = 0 /\ timers # {})
    /\ burst.phase = "cancelled" => burst.writes = 0
    /\ burst.phase = "done" =>
          /\ burst.writes <= 1
          /\ (burst.writes = 1 /\ ~burst.gone) => store.windowState = Object(burst.geom)
          /\ lastCall.op = "timer" =>
                /\ burst.writes = 1 <=> lastCall.result = "wrote"
                /\ burst.writes = 1 <=> (mainWindow = "alive" /\ lastCall.fault = "none")
                /\ burst.writes = 1 => store.windowState = Object(win)

\* A burst of several notifications has ended in one write of the last geometry.
C9_Witness ==
    /\ burst.phase = "done" /\ burst.n >= 2 /\ burst.writes = 1
    /\ lastCall.op = "timer" /\ lastCall.result = "wrote"
    /\ store.windowState = Object(burst.geom)
    /\ burst.geom.width = 800 /\ burst.geom.x = 100

\* C10: the before-quit handler cancels the pending timeout and writes
\* nothing itself, and the cancelled burst is never written.
C10_QuitCancels ==
    /\ [][ lastCall'.op = "before-quit"
           => /\ store' = store
              /\ saveWindowStateTimeout \notin timers'
              /\ timers' = {}
              /\ saveWindowStateTimeout' = 0 ]_vars
    /\ [](burst.phase = "cancelled" => burst.writes = 0)

\* The before-quit handler ran on a pending burst, whose geometry is not in
\* the store.
C10_Witness ==
    /\ lastCall.op = "before-quit" /\ burst.phase = "cancelled" /\ burst.n >= 1
    /\ timers = {} /\ saveWindowStateTimeout = 0
    /\ store.windowState # Object(burst.geom)

\* The notification events.
NotificationOps == {"resize", "move", "maximize", "unmaximize"}

\* C11: once the before-quit handler has run, no step writes windowState.
C11_NoWriteAfterQuit ==
    [][ quitting => store'.windowState = store.windowState ]_vars

\* The debouncer's two states: a timeout is outstanding, or none is.
Pending == timers # {}
Idle == timers = {}

\* C12 as stated: Idle is the initial state of the debouncer, no timeout
\* outstanding and no handle held.
C12_IdleIsInitial == Idle => saveWindowStateTimeout = 0

\* C12, amended: the debouncer is Idle (no timeout outstanding) or Pending
\* (exactly one outstanding, the one saveWindowStateTimeout refers to). It
\* starts Idle; a notification takes Idle to Pending and Pending to Pending
\* with the outstanding timeout replaced by a new one; the timeout firing
\* and the before-quit handler take Pending to Idle; nothing else moves it.
\* In Idle after a firing saveWindowStateTimeout still refers to the fired
\* timeout; only before-quit sets it back to null.
C12_TwoStateMachine ==
    /\ Idle /\ saveWindowStateTimeout = 0
    /\ [](Pending => timers = {saveWindowStateTimeout})
    /\ [][ /\ lastCall'.op \in NotificationOps
              => /\ Pending'
                 /\ saveWindowStateTimeout' \notin timers \cup {saveWindowStateTimeout}
           /\ lastCall'.op = "timer"
              => (Pending /\ Idle' /\ saveWindowStateTimeout' = saveWindowStateTimeout)
           /\ lastCall'.op = "before-quit"
              => (Idle' /\ saveWindowStateTimeout' = 0)
           /\ lastCall'.op \notin NotificationOps \cup {"timer", "before-quit"}
              => (timers' = timers /\ saveWindowStateTimeout' = saveWindowStateTimeout)
         ]_vars

\* Idle, Pending, Pending again, and Idle again by the timeout firing.
C12_Witness ==
    /\ lastCall.op = "timer" /\ Idle /\ burst.n >= 2 /\ burst.phase = "done"
    /\ saveWindowStateTimeout # 0

\* The timeout `handle` is the one a notification of the living window
\* scheduled last.
PendingOn(handle) ==
    /\ saveWindowStateTimeout = handle /\ handle \in timers
    /\ mainWindow = "alive" /\ burst.phase = "open" /\ ~burst.gone

\* What ends PendingOn: the timeout fired and the geometry of the
\* notification is in the store under windowState; or a further
\* notification or before-quit replaced or cleared it; or the window is
\* gone; or store.set threw.
Settled(handle) ==
    \/ /\ lastCall.op = "timer" /\ lastCall.result = "wrote"
       /\ handle \notin timers
       /\ store.windowState = Object(burst.geom)
    \/ saveWindowStateTimeout # handle
    \/ mainWindow # "alive"
    \/ lastCall.op = "timer" /\ lastCall.fault = "set"

\* C13: after a notification, with scheduled timeouts eventually firing,
\* the geometry of the notification is eventually written under
\* windowState, unless a further notification or before-quit comes first,
\* the window does not stay alive, or store.set throws; and the wait ends
\* in no other way.
C13_EventuallyWritten ==
    /\ \A handle \in TimerHandles : PendingOn(handle) ~> Settled(handle)
    /\ [][ \A handle \in TimerHandles :
              (PendingOn(handle) /\ ~PendingOn(handle)') => Settled(handle)' ]_vars

\* One notification, then the write of its geometry.
C13_Witness ==
    /\ lastCall.op = "timer" /\ lastCall.result = "wrote"
    /\ burst.n = 1 /\ burst.phase = "done" /\ ~burst.gone
    /\ store.windowState = Object(burst.geom) /\ burst.geom.isMaximized

\* C20: a windowState value in the store has width and height at least the
\* minimums and at most twice the size of the display; stated here for the
\* most generous reading, twice the work area of some display of WorkAreas.
C20_PersistedWithinBounds ==
    store.windowState.kind = "object" =>
        LET written == store.windowState.obj
        IN  /\ written.width >= 800 /\ written.height >= 600
            /\ \E workArea \in WorkAreas :
                  /\ written.width <= 2 * workArea.width
                  /\ written.height <= 2 * workArea.height

\* The operations wrapped to return a boolean.
BooleanOperations == {"setSettings", "saveMessage", "clearHistory", "deleteMessage"}

\* C14: a call of setSettings, saveMessage, clearHistory or deleteMessage
\* raises no error to its caller and returns true or false; it returns
\* false whenever the handler body (a store read or write in it) threw.
C14_NeverPropagates ==
    lastCall.op \in BooleanOperations =>
        /\ lastCall.error = NotRaised
        /\ lastCall.result \in {"true", "false"}
        /\ lastCall.thrown.kind # "none" => lastCall.result = "false"

\* setSettings of a valid value whose store write threw returned false.
C14_Witness ==
    /\ lastCall.op = "setSettings" /\ lastCall.args = <<Object(EmptyObject)>>
    /\ lastCall.thrown.kind = "Error" /\ lastCall.fault = "set"
    /\ lastCall.result = "false"

\* The error kind given to wrapIpcHandler for each operation that returns a
\* value.
Designated ==
    [ getSettings |-> "StorageError", getWindowState |-> "StorageError",
      getChatHistory |-> "StorageError",
      minimizeWindow |-> "WindowControlError", maximizeWindow |-> "WindowControlError",
      closeWindow |-> "WindowControlError", isWindowMaximized |-> "WindowControlError",
      analyzeImage |-> "ImageAnalysisError" ]

\* C15: a call of a value-wrapped operation whose body did not throw
\* returns the body's value (the settings record, the history read, whether
\* the window is maximized, nothing for the window commands, the analysis
\* envelope); one whose body threw raises an error of the operation's
\* designated kind whose message is the message of what was thrown.
C15_ValueWrapper ==
    lastCall.op \in DOMAIN Designated =>
        IF lastCall.thrown.kind = "none"
        THEN /\ lastCall.error = NotRaised /\ lastCall.result = "value"
             /\ lastCall.op = "getSettings" => lastCall.reply = Object(EmptyObject)
             /\ lastCall.op = "getChatHistory" => lastCall.value = ListHistory(store)
             /\ lastCall.op = "isWindowMaximized"
                   => lastCall.reply = Bool(mainWindow = "alive" /\ win.isMaximized)
             /\ lastCall.op \in {"minimizeWindow", "maximizeWindow", "closeWindow"}
                   => lastCall.reply = Undefined
             /\ lastCall.op = "analyzeImage" => lastCall.reply.success \in BOOLEAN
        ELSE /\ lastCall.error.name = Designated[lastCall.op]
             /\ lastCall.error.message = lastCall.thrown.message
             /\ lastCall.result = Designated[lastCall.op]

\* getSettings whose store read threw raised a StorageError with the message
\* of the error thrown.
C15_Witness ==
    /\ lastCall.op = "getSettings" /\ lastCall.fault = "get"
    /\ lastCall.thrown = ErrorOf("EACCES: permission denied")
    /\ lastCall.error = Raised("StorageError", "EACCES: permission denied")
    /\ lastCall.result = "StorageError"

\* C16: every operation of the boundary is registered through wrapIpcHandler
\* or through wrapIpcBooleanHandler.
C16_AllWrapped ==
    lastCall.op \in DOMAIN Registrations =>
        Registrations[lastCall.op] \in {"wrapIpcHandler", "wrapIpcBooleanHandler"}

\* What C17 calls a non-empty string, and the base64 shape: characters of
\* A-Z a-z 0-9 + /, then at most two '=', the length divisible by 4.
NonEmptyString(v) == v.t = "string" /\ Len(v.cs) > 0

Base64Shape(cs) ==
    /\ \E n \in 0..Len(cs) :
          /\ Len(cs) - n <= 2
          /\ \A i \in 1..n : cs[i] \in Base64Chars
          /\ \A i \in (n + 1)..Len(cs) : cs[i] = "="
    /\ Len(cs) % 4 = 0

\* The call was refused: success = false with an error text, the generative
\* model not called.
Refused(call) ==
    /\ call.result = "value"
    /\ call.reply.success = FALSE /\ call.reply.error.t = "string"
    /\ call.service.kind = "none"

\* C17 as stated: analyzeImage refuses whenever an argument is not a
\* non-empty string, the mimeType is not one of the whitelist, or imageData
\* has not the base64 shape.
C17_RejectsInvalid ==
    lastCall.op = "analyzeImage" =>
        LET imageData == lastCall.args[1]
            mimeType == lastCall.args[2]
            prompt == lastCall.args[3]
        IN  ( \/ ~NonEmptyString(imageData) \/ ~NonEmptyString(mimeType)
              \/ ~NonEmptyString(prompt)
              \/ mimeType.cs \notin ALLOWED_IMAGE_TYPES
              \/ ~Base64Shape(imageData.cs) )
            => Refused(lastCall)

\* C17, amended: the mimeType is compared with the whitelist in lower case;
\* and whenever the generative model is called, it is called with a type of
\* the whitelist.
C17_RejectsInvalidIgnoringCase ==
    lastCall.op = "analyzeImage" =>
        LET imageData == lastCall.args[1]
            mimeType == lastCall.args[2]
            prompt == lastCall.args[3]
        IN  /\ ( \/ ~NonEmptyString(imageData) \/ ~NonEmptyString(mimeType)
                 \/ ~NonEmptyString(prompt)
                 \/ toLowerCase(mimeType.cs) \notin ALLOWED_IMAGE_TYPES
                 \/ ~Base64Shape(imageData.cs) )
               => Refused(lastCall)
            /\ lastCall.service.kind # "none"
               => lastCall.service.mimeType \in ALLOWED_IMAGE_TYPES

\* Image data with three '=' was refused although the model is initialised.
C17_Witness ==
    /\ lastCall.op = "analyzeImage" /\ model = "ready"
    /\ lastCall.args[1] = Text(<<"A", "=", "=", "=">>)
    /\ lastCall.args[2] = Text(<<"i", "m", "a", "g", "e", "/", "p", "n", "g">>)
    /\ NonEmptyString(lastCall.args[3])
    /\ Refused(lastCall)

\* C18: when the generative model is not initialised or its call throws,
\* analyzeImage returns success = false with an error text (the message of
\* the Error thrown, if one was thrown) and raises nothing.
C18_ServiceFailureSurfaced ==
    (lastCall.op = "analyzeImage" /\ (model = "null" \/ lastCall.service.kind = "throws"))
    => /\ lastCall.error = NotRaised /\ lastCall.result = "value"
       /\ lastCall.reply.success = FALSE
       /\ lastCall.reply.error.t = "string" /\ lastCall.reply.error.s # ""
       /\ lastCall.service.thrown.kind = "Error"
             => lastCall.reply.error.s = lastCall.service.thrown.message

\* The call of the generative model threw and the envelope carries its message.
C18_Witness ==
    /\ lastCall.op = "analyzeImage" /\ lastCall.service.kind = "throws"
    /\ lastCall.service.thrown = ErrorOf("429 Too Many Requests")
    /\ lastCall.reply.success = FALSE
    /\ lastCall.reply.error = Str("429 Too Many Requests")

\* Stored values that fail the schema of their key.
ChatHistoryInvalid(data) ==
    \/ data.kind \notin {"array", "undefined"}
    \/ data.kind = "array"
       /\ (Len(data.items) > Cap \/ \E i \in 1..Len(data.items) : FailsSchema(data.items[i]))
WindowStateInvalid(data) ==
    \/ data.kind \notin {"object", "undefined"}
    \/ data.kind = "object"
       /\ \E key \in {"x", "y", "width", "height", "isMaximized"} : key \notin DOMAIN data.obj
SettingsInvalid(data) == data.kind \notin {"object", "undefined"}

\* C19: when the stored value fails its schema (and the store read itself
\* does not throw), getChatHistory returns [], getWindowState returns
\* undefined and getSettings returns {}, none of them raising an error.
C19_InvalidReadsDefault ==
    [][ /\ (lastCall'.op = "getChatHistory" /\ lastCall'.fault = "none"
              /\ ChatHistoryInvalid(store.chatHistory))
           => (lastCall'.error = NotRaised /\ lastCall'.result = "value"
               /\ lastCall'.value = <<>>)
        /\ (lastCall'.op = "getWindowState" /\ lastCall'.fault = "none"
              /\ WindowStateInvalid(store.windowState))
           => (lastCall'.error = NotRaised /\ lastCall'.result = "value"
               /\ lastCall'.reply = Absent)
        /\ (lastCall'.op = "getSettings" /\ lastCall'.fault = "none"
              /\ SettingsInvalid(store.settings))
           => (lastCall'.error = NotRaised /\ lastCall'.result = "value"
               /\ lastCall'.reply = Object(EmptyObject))
      ]_vars

\* getWindowState returned undefined for a stored object that lacks keys.
C19_Witness ==
    /\ lastCall.op = "getWindowState" /\ lastCall.result = "value"
    /\ lastCall.reply = Absent
    /\ store.windowState = Object([x |-> 100, y |-> 50, width |-> 800])

\* The rectangle of a window state has no point in common with the work area.
OffWorkArea(state, workArea) ==
    \/ state.x + state.width <= workArea.x
    \/ state.x >= workArea.x + workArea.width
    \/ state.y + state.height <= workArea.y
    \/ state.y >= workArea.y + workArea.height

\* Width or height below 800x600 or above twice the work area's.
OutOfRange(state, workArea) ==
    \/ state.width < 800 \/ state.height < 600
    \/ state.width > 2 * workArea.width \/ state.height > 2 * workArea.height

\* The default size, at most the work area less the margin, in the middle
\* of the work area.
CenteredDefault(workArea) ==
    LET width == IF workArea.width - 100 < 1200 THEN workArea.width - 100 ELSE 1200
        height == IF workArea.height - 100 < 800 THEN workArea.height - 100 ELSE 800
    IN  [x |-> workArea.x + (workArea.width - width) \div 2,
         y |-> workArea.y + (workArea.height - height) \div 2,
         width |-> width, height |-> height]

Rectangle(state) ==
    [x |-> state.x, y |-> state.y, width |-> state.width, height |-> state.height]

\* The window has just been created from a stored state that has the five
\* keys of a window state.
LoadedFromSaved ==
    /\ lastCall.op = "createWindow" /\ Len(lastCall.args) = 1
    /\ mainWindow = "alive"
    /\ store.windowState.kind = "object"
    /\ DOMAIN store.windowState.obj = {"x", "y", "width", "height", "isMaximized"}

\* C21: createWindow opens the window with the centered default geometry
\* when the saved state has no point in the work area or a width or height
\* below 800x600 or above twice the work area's, and with the saved state
\* unchanged otherwise; the geometry is a function of the saved state and
\* the work area.
C21_LoadValidated ==
    LoadedFromSaved =>
        LET workArea == lastCall.args[1]
            state == store.windowState.obj
        IN  IF OffWorkArea(state, workArea) \/ OutOfRange(state, workArea)
            THEN Rectangle(win) = CenteredDefault(workArea)
            ELSE win = state

\* C28: the geometry createWindow opens the window with is at least 800x600
\* and has a point in the work area, whatever is stored and whatever the
\* work area.
C28_OpensVisibleAtLeastMinimum ==
    (lastCall.op = "createWindow" /\ Len(lastCall.args) = 1 /\ mainWindow = "alive")
    => /\ win.width >= 800 /\ win.height >= 600
       /\ ~OffWorkArea(win, lastCall.args[1])

\* Two saveMessage calls that returned true are in flight together.
TwoSavesInFlight ==
    /\ Len(pending) >= 2
    /\ \A i \in {Len(pending) - 1, Len(pending)} :
          pending[i].op = "saveMessage" /\ pending[i].result = "true"

\* C22: a call takes its effect on the store when its handler is invoked,
\* whole: when two successful saveMessage calls are in flight together,
\* the stored history ends with their two messages in the order in which
\* the handlers were invoked; and the store changes only in the step in
\* which a handler runs, never when a reply arrives.
C22_NoLostUpdate ==
    /\ [](TwoSavesInFlight =>
            LET history == ListHistory(store)
                n == Len(history)
            IN  /\ n >= 2
                /\ history[n - 1] = FourFields(pending[Len(pending) - 1].msg)
                /\ history[n] = FourFields(pending[Len(pending)].msg))
    /\ [][ /\ Len(pending') < Len(pending) => store' = store
           /\ Len(pending') > Len(pending) =>
                 /\ SubSeq(pending', 1, Len(pending)) = pending
                 /\ (pending'[Len(pending')].op = "saveMessage"
                       /\ pending'[Len(pending')].result = "true")
                    => LastEntries(ListHistory(store'), 1)
                          = <<FourFields(pending'[Len(pending')].msg)>>
                 /\ pending'[Len(pending')].result = "false" => store' = store
         ]_vars

\* MsgA and MsgB are in flight together, saved in this order onto a
\* history that held an entry before.
C22_Witness ==
    /\ Len(pending) = 2
    /\ pending[1].msg = MsgA /\ pending[1].result = "true"
    /\ pending[2].msg = MsgB /\ pending[2].result = "true"
    /\ Len(ListHistory(store)) = 3

\* C23: saving again a message whose save has just returned true leaves
\* the store as that first save left it.
C23_RetryIdempotent ==
    [][ ( /\ lastCall.op = "saveMessage" /\ lastCall.result = "true"
          /\ lastCall'.op = "saveMessage" /\ lastCall'.result = "true"
          /\ lastCall'.msg = lastCall.msg )
        => store' = store ]_vars

\* The operations that touch the window handle.
WindowOperations ==
    NotificationOps \cup {"timer", "minimizeWindow", "maximizeWindow", "closeWindow",
                          "isWindowMaximized"}

\* C24: no operation that touches the window handle invokes a method on a
\* window that is destroyed (which the window answers by throwing) or
\* released.
C24_GuardedWindowAccess ==
    lastCall.op \in WindowOperations => lastCall.thrown.kind = "none"

\* C25: at most one timeout of the debouncer is scheduled at any time; a
\* notification leaves scheduled the timeout it has just set and no other.
C25_AtMostOneTimer ==
    /\ [](Cardinality(timers) <= 1)
    /\ [][ lastCall'.op \in NotificationOps
           => /\ timers' = {saveWindowStateTimeout'}
              /\ saveWindowStateTimeout' \notin timers ]_vars

\* A notification has come while the timeout of the one before it was
\* scheduled, and one timeout is scheduled.
C25_Witness ==
    /\ lastCall.op \in NotificationOps
    /\ burst.phase = "open" /\ burst.n >= 2
    /\ Cardinality(timers) = 1

\* The keys a call may change.
OwnKeys(op) ==
    IF op \in {"saveMessage", "deleteMessage", "clearHistory"} THEN {"chatHistory"}
    ELSE IF op = "setSettings" THEN {"settings"}
    ELSE IF op = "timer" THEN {"windowState"}
    ELSE {}

\* C26: every step leaves the store's keys chatHistory, windowState and
\* settings and no other, and changes at most the record of the operation
\* that ran: chatHistory for saveMessage, deleteMessage and clearHistory,
\* settings for setSettings, windowState for the debounce timer, none for
\* any other operation.
C26_OwnRecordOnly ==
    [][ /\ DOMAIN store' = {"chatHistory", "windowState", "settings"}
        /\ \A key \in DOMAIN store :
              store'[key] # store[key] => key \in OwnKeys(lastCall'.op) ]_vars

\* The timer has written windowState into a store that holds a chat history
\* and settings.
C26_Witness ==
    /\ lastCall.op = "timer" /\ lastCall.result = "wrote"
    /\ store.windowState = Object(win)
    /\ store.chatHistory.kind = "array" /\ Len(store.chatHistory.items) > 0
    /\ store.settings = Object([theme |-> "dark"])

\* C27: on a stored chatHistory that fails its schema as a whole, a
\* saveMessage of a valid message m whose store accesses do not throw
\* returns true and leaves exactly [m] stored, and such a deleteMessage
\* leaves the empty sequence stored.
C27_CorruptHistoryOverwritten ==
    [][ /\ ( /\ lastCall'.op = "saveMessage" /\ lastCall'.fault = "none"
             /\ ~FailsSchema(lastCall'.msg)
             /\ ChatHistoryInvalid(store.chatHistory) )
           => /\ lastCall'.result = "true"
              /\ store'.chatHistory = Array(<<FourFields(lastCall'.msg)>>)
        /\ ( /\ lastCall'.op = "deleteMessage" /\ lastCall'.fault = "none"
             /\ ChatHistoryInvalid(store.chatHistory) )
           => /\ lastCall'.result = "true"
              /\ store'.chatHistory = Array(<<>>)
      ]_vars

\* A save has left exactly its message in a store whose other keys still
\* hold the values that fail their schemas.
C27_Witness ==
    /\ lastCall.op = "saveMessage" /\ lastCall.result = "true" /\ lastCall.found = 0
    /\ store.chatHistory = Array(<<MsgA>>)
    /\ store.windowState = Object([x |-> 100, y |-> 50, width |-> 800])
    /\ store.settings = Array(<<>>)

\* The operations that read a record.
ReadOperations == {"getChatHistory", "getSettings", "getWindowState"}

\* C29: a getChatHistory, getSettings or getWindowState call leaves the
\* store as it found it, whether the stored value passes its schema or
\* fails it, and whether or not the store read throws.
C29_ReadsLeaveStore ==
    [][ lastCall'.op \in ReadOperations => store' = store ]_vars

\* getSettings has returned {} for a stored array, and the array is still
\* stored.
C29_Witness ==
    /\ lastCall.op = "getSettings" /\ lastCall.result = "value"
    /\ lastCall.reply = Object(EmptyObject)
    /\ store.settings = Array(<<>>)

\* C30: every message in the renderer's chatHistory state is one the
\* renderer loaded from the store or saw saved with result true, and the
\* chatHistory state becomes empty only in a step whose clearHistory call
\* returned true.
C30_SidebarOnlySaved ==
    /\ [](\A i \in 1..Len(app.chatHistory) : app.chatHistory[i] \in acked)
    /\ [][ (app.chatHistory # <<>> /\ app'.chatHistory = <<>>)
           => (lastCall'.op = "clearHistory" /\ lastCall'.result = "true") ]_vars

====
